---- MODULE Spec2Model ----
(***************************************************************************)
(* Machine lifecycle provider (ironcore-metal) for the machine-controller  *)
(* manager: the five driver callbacks CreateMachine, InitializeMachine,    *)
(* GetMachineStatus, ListMachines and DeleteMachine acting on the          *)
(* declarative store (ServerClaim, IPAddressClaim, Secret), together with  *)
(* the external operators that bind ServerClaims and IPAddressClaims.      *)
(*                                                                         *)
(* Each callback is one atomic action.  A callback's store operations may  *)
(* fail: the input `fault` names the store operation that returns an       *)
(* error other than not-found ("none" when every operation succeeds).      *)
(***************************************************************************)
EXTENDS Integers, Sequences, FiniteSets, TLC

Nil == "nil"
NoServer == 0
NoName == <<>>
NoSecret == [base |-> "", suffix |-> ""]

\* ---- bounds of the model ------------------------------------------------
NumServers == 2
NumIPAM == 1

\* The machines of the machine class.  Every object a callback touches is
\* named after the machine of its request, so callbacks for different
\* machines act on disjoint objects; one machine is modelled.
Machines == {"machine-0"}
Servers == 1..NumServers
IPAMKeys == 1..NumIPAM

\* ---- program constants ---------------------------------------------------
ProviderName == "ironcore-metal"
PowerOn == "On"
PowerOff == "Off"
NodeNamePolicyBMCName == "BMCName"
NodeNamePolicyServerName == "ServerName"
NodeNamePolicyServerClaimName == "ServerClaimName"
NodeNamePolicies ==
    {NodeNamePolicyBMCName, NodeNamePolicyServerName, NodeNamePolicyServerClaimName}
ServerClaimKind == "ServerClaim"
MetalGroupVersion == "metal.ironcore.dev/v1alpha1"

\* The namespace of the metal cluster kubeconfig (d.metalNamespace).
MetalNamespace == "ns"

\* ---- the Servers of the metal cluster -------------------------------------
\* Odd servers carry a BMC reference, even servers do not.
ServerBMCRef(s) == IF s % 2 = 1 THEN <<"bmc", s>> ELSE NoName

\* ---- requests ------------------------------------------------------------
\* An IPAMConfig maps every metadata key to "absent" (no entry for the key),
\* "ref" (entry with an IPAMRef) or "noref" (entry whose IPAMRef is nil).
\* Entries are processed in key order.
IPAMConfigs == [IPAMKeys -> {"absent", "ref", "noref"}]

\* Labels are sets of <<key, value>> pairs.
SampleLabels ==
    {<<"shoot-name", "my-shoot">>, <<"shoot-namespace", "my-shoot-namespace">>}

\* The provider spec of the machine class: the sample spec of the tests with
\* the IPAM configuration of the class.
SampleProviderSpec(ipam) ==
    [image |-> "my-image", labels |-> SampleLabels, serverLabels |-> "bar", ipam |-> ipam,
     dnsServers |-> <<"1.2.3.4", "5.6.7.8">>]

\* A request.  shape is "ok", or tells what is missing: "empty" (the request
\* itself), "noClass", "noMachine" or "noSecret".  raw is the ProviderSpec of
\* the machine class as received: "json" when it decodes to spec, "garbage"
\* when it does not decode.  userData is the userData of the credential
\* secret: Nil when the secret has no such key or a nil value under it, ""
\* when the value is present and of length zero.
ValidRequests(ipam) ==
    {[shape |-> "ok", provider |-> ProviderName, m |-> m, raw |-> "json",
      spec |-> SampleProviderSpec(ipam), userData |-> "abcd"] : m \in Machines}

\* One malformed request for every outcome of the request checks.
InvalidRequests(ipam) ==
    {[r EXCEPT !.shape = "empty"] : r \in ValidRequests(ipam)} \cup
    {[r EXCEPT !.provider = "other"] : r \in ValidRequests(ipam)} \cup
    {[r EXCEPT !.spec.image = ""] : r \in ValidRequests(ipam)}

Requests(ipam) == ValidRequests(ipam) \cup InvalidRequests(ipam)

\* One malformed request for every reason the request checks know.
MalformedRequests(ipam) ==
    {[r EXCEPT !.shape = sh] :
        r \in ValidRequests(ipam), sh \in {"empty", "noClass", "noMachine", "noSecret"}} \cup
    {[r EXCEPT !.provider = "other"] : r \in ValidRequests(ipam)} \cup
    {[r EXCEPT !.raw = "garbage"] : r \in ValidRequests(ipam)} \cup
    {[r EXCEPT !.spec.image = ""] : r \in ValidRequests(ipam)} \cup
    {[r EXCEPT !.userData = Nil] : r \in ValidRequests(ipam)} \cup
    {[r EXCEPT !.spec.dnsServers = <<"1.2.3.4", "">>] : r \in ValidRequests(ipam)}

\* Requests that are well-formed but for a userData of length zero.
EmptyUserDataRequests(ipam) ==
    {[r EXCEPT !.userData = ""] : r \in ValidRequests(ipam)}

\* What a step records of its request.
Received(req) ==
    [shape |-> req.shape, provider |-> req.provider, raw |-> req.raw,
     image |-> req.spec.image, userData |-> req.userData,
     dnsServers |-> req.spec.dnsServers]

\* What a step of the external operators records.
NoRequest ==
    [shape |-> "", provider |-> "", raw |-> "", image |-> "", userData |-> "",
     dnsServers |-> <<>>]

\* ---- codes -----------------------------------------------------------------
OK == "OK"
InvalidArgument == "InvalidArgument"
Internal == "Internal"
Unavailable == "Unavailable"
Uninitialized == "Uninitialized"
NotFound == "NotFound"
DeadlineExceeded == "DeadlineExceeded"
Unknown == "Unknown"

VARIABLES
    nodeNamePolicy,   \* d.nodeNamePolicy, fixed at construction
    ipamConfig,       \* the IPAMConfig of the machine class's provider spec
    serverClaims,     \* store: machine -> ServerClaim or Nil
    ipClaims,         \* store: <<machine, key>> -> IPAddressClaim or Nil
    secrets,          \* store: the names of the Secrets of the namespace
    ignitionData,     \* store: the Secrets with non-empty bytes under the key "ignition"
    retry,            \* per machine: progress of the Create retry protocol
    rendered,         \* per machine: secret name rendered by the Initialize that powered on
    last,             \* the step just taken: callback, request and response
    calls,            \* the CreateMachine calls in progress, store operation by store operation
    gateway,          \* the client provider: its client and the holder of its mutex
    fleet             \* the call the machine controller makes next

vars ==
    <<nodeNamePolicy, ipamConfig, serverClaims, ipClaims, secrets, ignitionData, retry,
      rendered, last, calls, gateway, fleet>>

\* The calls in progress, the client provider and the machine controller.
callVars == <<calls, gateway, fleet>>

\* ---- names -----------------------------------------------------------------
\* A Secret name is [base, suffix]: the machine name, or the machine name with
\* "-ignition".
\* A provider ID without the namespace.
getProviderIDWithoutNamespace(m) == <<ProviderName, "://", m>>

\* getProviderIDForServerClaim: provider, namespace and name of the ServerClaim.
getProviderIDForServerClaim(m) == <<ProviderName, "://", MetalNamespace, "/", m>>

\* Two machines of one namespace, the name of the second being the name of
\* the first followed by "-ignition".
PairNames == {"machine-0", "machine-0" \o "-ignition"}

\* The Secret named base followed by suffix.  A name that can be written in
\* two ways is one name: "machine-0-ignition" is "machine-0" followed by
\* "-ignition".
SecretName(base, suffix) ==
    LET heads == {b \in Machines \cup PairNames : b \o "-ignition" = base \o suffix}
    IN  IF heads # {} THEN [base |-> CHOOSE b \in heads : TRUE, suffix |-> "-ignition"]
        ELSE [base |-> base, suffix |-> suffix]

\* The two names of the ignition Secret of a machine.
LegacyIgnitionName(m) == SecretName(m, "-ignition")
PlainIgnitionName(m) == SecretName(m, "")

\* getIgnitionNameForMachine: probe the store for the old naming convention.
\* probeErr is the probe's outcome: "none", or "error" for a failure other
\* than not-found.
getIgnitionNameForMachine(secs, m, probeErr) ==
    LET legacy == LegacyIgnitionName(m)
        notFound == probeErr = "none" /\ legacy \notin secs
    IN  IF notFound THEN PlainIgnitionName(m) ELSE legacy

\* A getNodeName that ignores the policy and names the node after the claim.
getNodeNameOfClaim(policy, m, sc, serverErr) ==
    [ok |-> TRUE, name |-> <<"claim", m>>, io |-> FALSE]

\* getNodeName: [ok, name, io].  serverErr: the Get of the Server fails;
\* io tells that the failure is that of the Get.
getNodeName(policy, m, sc, serverErr) ==
    LET Fail(io) == [ok |-> FALSE, name |-> NoName, io |-> io]
        Name(n) == [ok |-> TRUE, name |-> n, io |-> FALSE]
    IN  CASE policy = NodeNamePolicyServerClaimName -> Name(<<"claim", m>>)
          [] policy = NodeNamePolicyServerName ->
                IF sc.serverRef = NoServer THEN Fail(FALSE)
                ELSE Name(<<"server", sc.serverRef>>)
          [] policy = NodeNamePolicyBMCName ->
                IF sc.serverRef = NoServer THEN Fail(FALSE)
                ELSE IF serverErr THEN Fail(TRUE)
                ELSE IF ServerBMCRef(sc.serverRef) = NoName THEN Fail(FALSE)
                ELSE Name(ServerBMCRef(sc.serverRef))
          [] OTHER -> Fail(FALSE)

\* ---- request gating ----------------------------------------------------------
\* validateSecret: the value under userData must not be nil; a value of
\* length zero is not nil.
validateSecret(userData) == userData # Nil

\* netip.Addr.IsValid: the zero Addr, written "", is not valid.
IsValid(ip) == ip # ""

\* validateMachineClassSpec: image must be set, and every DNS server must be
\* a valid address.
validateMachineClassSpec(spec) ==
    /\ spec.image # ""
    /\ \A i \in 1..Len(spec.dnsServers) : IsValid(spec.dnsServers[i])

\* A GetProviderSpec whose validator does not look at the DNS servers.
GetProviderSpecIgnoringDnsServers(req) ==
    /\ req.shape \notin {"noClass", "noSecret"}
    /\ req.raw = "json"
    /\ req.spec.image # ""
    /\ validateSecret(req.userData)

\* GetProviderSpec: decode and validate.
GetProviderSpec(req) ==
    /\ req.shape \notin {"noClass", "noSecret"}
    /\ req.raw = "json"
    /\ validateMachineClassSpec(req.spec)
    /\ validateSecret(req.userData)

\* isEmptyCreateRequest, and the same checks of InitializeMachine,
\* GetMachineStatus and DeleteMachine.
isEmptyCreateRequest(req) == req.shape \in {"empty", "noClass", "noMachine", "noSecret"}

\* isEmptyListMachinesRequest: a ListMachinesRequest has no machine.
isEmptyListMachinesRequest(req) == req.shape \in {"empty", "noClass", "noSecret"}

\* A request check that does not look at the credential secret.
GateIgnoringSecret(req) ==
    IF req.shape \in {"empty", "noClass", "noMachine"} THEN "empty"
    ELSE IF req.provider # ProviderName THEN "provider"
    ELSE IF ~GetProviderSpec(req) THEN "spec"
    ELSE "ok"

\* Outcome of the checks every callback starts with.
Gate(req) ==
    IF isEmptyCreateRequest(req) THEN "empty"
    ELSE IF req.provider # ProviderName THEN "provider"
    ELSE IF ~GetProviderSpec(req) THEN "spec"
    ELSE "ok"

GateCode(g) == IF g \in {"empty", "provider"} THEN InvalidArgument ELSE Internal

\* ---- ServerClaim coordinator -------------------------------------------------
\* The ServerClaim of a machine that has none in the store.
NoServerClaim ==
    [exists |-> FALSE, power |-> PowerOff, serverRef |-> NoServer,
     recreate |-> FALSE, ignitionSecretRef |-> NoSecret, labels |-> {},
     image |-> "", selector |-> "", deleting |-> FALSE]

\* A createServerClaim that applies PowerOn.
createServerClaimPowerOn(old, spec) ==
    IF ~old.exists
    THEN [exists |-> TRUE, power |-> PowerOn, serverRef |-> NoServer,
          recreate |-> FALSE, ignitionSecretRef |-> NoSecret,
          labels |-> spec.labels, image |-> spec.image,
          selector |-> spec.serverLabels, deleting |-> FALSE]
    ELSE [old EXCEPT !.power = PowerOn, !.labels = spec.labels,
                     !.image = spec.image, !.selector = spec.serverLabels]

\* A createServerClaim that applies no selector.
createServerClaimWithoutSelector(old, spec) ==
    IF ~old.exists
    THEN [exists |-> TRUE, power |-> PowerOff, serverRef |-> NoServer,
          recreate |-> FALSE, ignitionSecretRef |-> NoSecret,
          labels |-> spec.labels, image |-> spec.image,
          selector |-> "", deleting |-> FALSE]
    ELSE [old EXCEPT !.power = PowerOff, !.labels = spec.labels,
                     !.image = spec.image, !.selector = ""]

\* createServerClaim: server-side apply with forced ownership.  The applied
\* fields are labels, power, selector and image; fields of other managers
\* (serverRef, annotations, ignitionSecretRef) are kept.
createServerClaim(old, spec) ==
    IF ~old.exists
    THEN [exists |-> TRUE, power |-> PowerOff, serverRef |-> NoServer,
          recreate |-> FALSE, ignitionSecretRef |-> NoSecret,
          labels |-> spec.labels, image |-> spec.image,
          selector |-> spec.serverLabels, deleting |-> FALSE]
    ELSE [old EXCEPT !.power = PowerOff, !.labels = spec.labels,
                     !.image = spec.image, !.selector = spec.serverLabels]

\* A patch that sets the annotation whatever it is asked.
patchServerClaimAlwaysAnnotates(sc, addAnnotation) == [sc EXCEPT !.recreate = TRUE]

\* A patch that removes an annotation it finds already set.
patchServerClaimRemovesFoundAnnotation(sc, addAnnotation) ==
    [sc EXCEPT !.recreate = addAnnotation /\ ~sc.recreate]

\* A patch that drops the annotation whatever it is asked.
patchServerClaimNeverAnnotates(sc, addAnnotation) == [sc EXCEPT !.recreate = FALSE]

\* patchServerClaimWithRecreateAnnotation: merge patch of the annotation.
patchServerClaimWithRecreateAnnotation(sc, addAnnotation) ==
    [sc EXCEPT !.recreate = addAnnotation]

\* ServerIsBound
ServerIsBound(sc) == sc.serverRef # NoServer

\* ---- IP-claim coordinator ------------------------------------------------------
\* The IPAddressClaim of an entry that has none in the store.
NoIPAddressClaim ==
    [exists |-> FALSE, labelName |-> "", labelNamespace |-> "", owners |-> {},
     addressRef |-> FALSE]

OwnerRef(m) == [kind |-> ServerClaimKind, name |-> m, apiVersion |-> MetalGroupVersion]

\* An apply of the IPAddressClaim that sets no owner reference.
applyIPAddressClaimWithoutOwner(old, m) ==
    IF ~old.exists
    THEN [exists |-> TRUE, labelName |-> m, labelNamespace |-> MetalNamespace,
          owners |-> {}, addressRef |-> FALSE]
    ELSE [old EXCEPT !.labelName = m, !.labelNamespace = MetalNamespace]

\* An apply that adopts an existing IPAddressClaim as it is.
applyIPAddressClaimAdopting(old, m) ==
    IF ~old.exists
    THEN [exists |-> TRUE, labelName |-> m, labelNamespace |-> MetalNamespace,
          owners |-> {OwnerRef(m)}, addressRef |-> FALSE]
    ELSE old

\* The IPAddressClaim applied by createIPAddressClaims for one entry: labels,
\* pool reference and owner reference are applied, status is kept.
applyIPAddressClaim(old, m) ==
    IF ~old.exists
    THEN [exists |-> TRUE, labelName |-> m, labelNamespace |-> MetalNamespace,
          owners |-> {OwnerRef(m)}, addressRef |-> FALSE]
    ELSE [old EXCEPT !.labelName = m, !.labelNamespace = MetalNamespace,
                     !.owners = old.owners \cup {OwnerRef(m)}]

\* A createIPAddressClaims that passes over an entry without IPAMRef.
RECURSIVE createIPAddressClaimsSkippingNilRef(_, _, _, _, _)
createIPAddressClaimsSkippingNilRef(ipc, m, ipam, k, applyErr) ==
    IF k > NumIPAM THEN [ipc |-> ipc, err |-> "none"]
    ELSE IF ipam[k] \in {"absent", "noref"}
         THEN createIPAddressClaimsSkippingNilRef(ipc, m, ipam, k + 1, applyErr)
    ELSE IF applyErr THEN [ipc |-> ipc, err |-> "apply"]
    ELSE createIPAddressClaimsSkippingNilRef(
            [ipc EXCEPT ![<<m, k>>] = applyIPAddressClaim(ipc[<<m, k>>], m)],
            m, ipam, k + 1, applyErr)

\* createIPAddressClaims over the keys k..NumIPAM: [ipc, err], err being
\* "none", "noref" (an entry without IPAMRef) or "apply" (the apply failed).
RECURSIVE createIPAddressClaims(_, _, _, _, _)
createIPAddressClaims(ipc, m, ipam, k, applyErr) ==
    IF k > NumIPAM THEN [ipc |-> ipc, err |-> "none"]
    ELSE IF ipam[k] = "absent" THEN createIPAddressClaims(ipc, m, ipam, k + 1, applyErr)
    ELSE IF ipam[k] = "noref" THEN [ipc |-> ipc, err |-> "noref"]
    ELSE IF applyErr THEN [ipc |-> ipc, err |-> "apply"]
    ELSE createIPAddressClaims(
            [ipc EXCEPT ![<<m, k>>] = applyIPAddressClaim(ipc[<<m, k>>], m)],
            m, ipam, k + 1, applyErr)

\* ---- the step record -------------------------------------------------------------
RetryIdle == "idle"

\* prevRetry is the progress of the Create retry protocol a CreateMachine
\* step started from.  repeat tells that the step is a CreateMachine that
\* directly follows a CreateMachine with the same request, both with store
\* operations that all succeed.  elapsed is the time, in seconds, a
\* DeleteMachine step spent in its wait loop.  labels are the
\* labels of the provider spec of a ListMachines step that returned a list.
\* relabelled are the entries whose IPAddressClaim a CreateMachine step found
\* with labels other than the machine's and applied.
\* ignitionName is the name an InitializeMachine or DeleteMachine step derived
\* for the ignition Secret, NoSecret when the step derived none.
Step(op, m, received, gate, fault, code, node, observed, prevRetry, list) ==
    [op |-> op, m |-> m, req |-> received, gate |-> gate, fault |-> fault, code |-> code,
     providerID |-> IF code = OK /\ op # "List" /\ op # "Delete"
                    THEN getProviderIDForServerClaim(m) ELSE NoName,
     nodeName |-> node, observed |-> observed,
     prevRetry |-> IF op = "Create" THEN prevRetry ELSE RetryIdle, list |-> list,
     repeat |-> FALSE, elapsed |-> 0, labels |-> {}, ignitionName |-> NoSecret,
     relabelled |-> {}]

EnvStep(op, m) == Step(op, m, NoRequest, "ok", "none", OK, NoName, Nil, RetryIdle, {})

\* No call is in progress, the client provider holds its first client and
\* the machine controller is not driving the calls.
Standby ==
    /\ calls = <<>>
    /\ gateway = [client |-> 0, holder |-> 0]
    /\ fleet = "off"

Init ==
    /\ Standby
    /\ nodeNamePolicy \in NodeNamePolicies
    /\ ipamConfig \in IPAMConfigs
    /\ serverClaims = [m \in Machines |-> NoServerClaim]
    /\ ipClaims = [c \in Machines \X IPAMKeys |-> NoIPAddressClaim]
    /\ secrets \in SUBSET {[base |-> m, suffix |-> "-ignition"] : m \in Machines}
    /\ ignitionData \in SUBSET secrets
    /\ retry = [m \in Machines |-> RetryIdle]
    /\ rendered = [m \in Machines |-> NoSecret]
    /\ last = EnvStep("Init", CHOOSE m \in Machines : TRUE)

\* ---- CreateMachine ---------------------------------------------------------------
CreateFaults == {"none", "applySC", "applyIPC", "getSC", "patchSC", "getServer"}

\* A CreateMachine that waits for the binding under every node name policy.
CreateOutcomeAlwaysNeedingBinding(policy, scOld, ipcOld, req, fault) ==
    LET m == req.m
        sc1 == createServerClaim(scOld, req.spec)
        ips == createIPAddressClaims(ipcOld, m, req.spec.ipam, 1, fault = "applyIPC")
        bound == ServerIsBound(sc1)
        sc2 == patchServerClaimWithRecreateAnnotation(sc1, ~bound)
        nn(sc) == getNodeName(policy, m, sc, fault = "getServer")
        obs == IF bound THEN "bound" ELSE "unbound"
        Out(sc, ipc, code, node, o, fired) ==
            [sc |-> sc, ipc |-> ipc, code |-> code, node |-> node, observed |-> o,
             fired |-> fired]
    IN  IF fault = "applySC" THEN Out(scOld, ipcOld, Internal, NoName, Nil, fault)
        ELSE IF ips.err = "apply" THEN Out(sc1, ips.ipc, Internal, NoName, Nil, "applyIPC")
        ELSE IF ips.err = "noref" THEN Out(sc1, ips.ipc, Internal, NoName, Nil, "none")
        ELSE IF fault = "getSC" THEN Out(sc1, ips.ipc, Internal, NoName, Nil, fault)
        ELSE IF fault = "patchSC" THEN Out(sc1, ips.ipc, Internal, NoName, obs, fault)
        ELSE IF ~bound THEN Out(sc2, ips.ipc, Unavailable, NoName, obs, "none")
        ELSE IF nn(sc2).ok THEN Out(sc2, ips.ipc, OK, nn(sc2).name, obs, "none")
        ELSE Out(sc2, ips.ipc, Internal, NoName, obs,
                 IF nn(sc2).io THEN "getServer" ELSE "none")

\* A CreateMachine that upserts the IPAddressClaims before it applies the
\* ServerClaim.
CreateOutcomeIPClaimsFirst(policy, scOld, ipcOld, req, fault) ==
    LET m == req.m
        sc1 == createServerClaim(scOld, req.spec)
        ips == createIPAddressClaims(ipcOld, m, req.spec.ipam, 1, fault = "applyIPC")
        bound == ServerIsBound(sc1)
        sc2 == patchServerClaimWithRecreateAnnotation(sc1, ~bound)
        nn(sc) == getNodeName(policy, m, sc, fault = "getServer")
        obs == IF bound THEN "bound" ELSE "unbound"
        Out(sc, ipc, code, node, o, fired) ==
            [sc |-> sc, ipc |-> ipc, code |-> code, node |-> node, observed |-> o,
             fired |-> fired]
    IN  IF ips.err = "apply" THEN Out(scOld, ips.ipc, Internal, NoName, Nil, "applyIPC")
        ELSE IF ips.err = "noref" THEN Out(scOld, ips.ipc, Internal, NoName, Nil, "none")
        ELSE IF fault = "applySC" THEN Out(scOld, ips.ipc, Internal, NoName, Nil, fault)
        ELSE IF policy # NodeNamePolicyServerClaimName
        THEN IF fault = "getSC" THEN Out(sc1, ips.ipc, Internal, NoName, Nil, fault)
             ELSE IF fault = "patchSC" THEN Out(sc1, ips.ipc, Internal, NoName, obs, fault)
             ELSE IF ~bound THEN Out(sc2, ips.ipc, Unavailable, NoName, obs, "none")
             ELSE IF nn(sc2).ok THEN Out(sc2, ips.ipc, OK, nn(sc2).name, obs, "none")
             ELSE Out(sc2, ips.ipc, Internal, NoName, obs,
                      IF nn(sc2).io THEN "getServer" ELSE "none")
        ELSE IF nn(sc1).ok THEN Out(sc1, ips.ipc, OK, nn(sc1).name, Nil, "none")
             ELSE Out(sc1, ips.ipc, Internal, NoName, Nil, "none")

\* The outcome of CreateMachine for a gated request: the store after the
\* call, the code, the node name and what ServerIsBound observed.
CreateOutcome(policy, scOld, ipcOld, req, fault) ==
    LET m == req.m
        sc1 == createServerClaim(scOld, req.spec)
        ips == createIPAddressClaims(ipcOld, m, req.spec.ipam, 1, fault = "applyIPC")
        bound == ServerIsBound(sc1)
        sc2 == patchServerClaimWithRecreateAnnotation(sc1, ~bound)
        nn(sc) == getNodeName(policy, m, sc, fault = "getServer")
        obs == IF bound THEN "bound" ELSE "unbound"
        Out(sc, ipc, code, node, o, fired) ==
            [sc |-> sc, ipc |-> ipc, code |-> code, node |-> node, observed |-> o,
             fired |-> fired]
    IN  IF fault = "applySC" THEN Out(scOld, ipcOld, Internal, NoName, Nil, fault)
        ELSE IF ips.err = "apply" THEN Out(sc1, ips.ipc, Internal, NoName, Nil, "applyIPC")
        ELSE IF ips.err = "noref" THEN Out(sc1, ips.ipc, Internal, NoName, Nil, "none")
        ELSE IF policy # NodeNamePolicyServerClaimName
        THEN IF fault = "getSC" THEN Out(sc1, ips.ipc, Internal, NoName, Nil, fault)
             ELSE IF fault = "patchSC" THEN Out(sc1, ips.ipc, Internal, NoName, obs, fault)
             ELSE IF ~bound THEN Out(sc2, ips.ipc, Unavailable, NoName, obs, "none")
             ELSE IF nn(sc2).ok THEN Out(sc2, ips.ipc, OK, nn(sc2).name, obs, "none")
             ELSE Out(sc2, ips.ipc, Internal, NoName, obs,
                      IF nn(sc2).io THEN "getServer" ELSE "none")
        ELSE IF nn(sc1).ok THEN Out(sc1, ips.ipc, OK, nn(sc1).name, Nil, "none")
             ELSE Out(sc1, ips.ipc, Internal, NoName, Nil, "none")

CreateMachineFor(reqs) ==
    \E req \in reqs :
        LET g == Gate(req)
            m == req.m
        IN  IF g # "ok"
            THEN /\ last' = Step("Create", m, Received(req), g, "none", GateCode(g), NoName, Nil,
                                 retry[m], {})
                 /\ UNCHANGED <<nodeNamePolicy, ipamConfig, serverClaims, ipClaims, secrets, ignitionData,
                                retry, rendered>>
            ELSE \E fault \in CreateFaults :
                 \E o \in {CreateOutcome(nodeNamePolicy, serverClaims[m], ipClaims,
                                          req, fault)} :
                     /\ o.fired = fault
                     /\ serverClaims' = [serverClaims EXCEPT ![m] = o.sc]
                     /\ ipClaims' = o.ipc
                     /\ retry' = [retry EXCEPT ![m] =
                            IF o.code = Unavailable
                            THEN "unavailable"
                            ELSE RetryIdle]
                     /\ last' = [Step("Create", m, Received(req), g, fault, o.code, o.node, o.observed,
                                      retry[m], {})
                                 EXCEPT !.repeat = /\ fault = "none"
                                                   /\ last.op = "Create" /\ last.m = m
                                                   /\ last.gate = "ok"
                                                   /\ last.fault = "none",
                                        !.relabelled =
                                            {k \in IPAMKeys :
                                                /\ ipClaims[<<m, k>>].exists
                                                /\ o.ipc[<<m, k>>] # ipClaims[<<m, k>>]
                                                /\ \/ ipClaims[<<m, k>>].labelName # m
                                                   \/ ipClaims[<<m, k>>].labelNamespace
                                                        # MetalNamespace}]
                     /\ UNCHANGED <<nodeNamePolicy, ipamConfig, secrets, ignitionData, rendered>>

\* ---- the external operators ------------------------------------------------------
\* The metal operator binds a ServerClaim to a Server.
EnvBindServer ==
    \E m \in DOMAIN serverClaims, s \in Servers :
        /\ serverClaims[m].exists
        /\ serverClaims[m].serverRef = NoServer
        /\ ~serverClaims[m].deleting
        /\ serverClaims' = [serverClaims EXCEPT ![m].serverRef = s]
        /\ retry' = [retry EXCEPT ![m] =
               IF retry[m] = "unavailable" THEN "bound"
               ELSE retry[m]]
        /\ last' = EnvStep("EnvBindServer", m)
        /\ UNCHANGED <<nodeNamePolicy, ipamConfig, ipClaims, secrets, ignitionData, rendered>>
        /\ UNCHANGED callVars

\* The IPAM operator binds an IPAddressClaim to an IPAddress.
EnvBindIPAddress ==
    \E m \in Machines, k \in IPAMKeys :
        /\ ipClaims[<<m, k>>].exists
        /\ ~ipClaims[<<m, k>>].addressRef
        /\ ipClaims' = [ipClaims EXCEPT ![<<m, k>>].addressRef = TRUE]
        /\ last' = EnvStep("EnvBindIPAddress", m)
        /\ UNCHANGED <<nodeNamePolicy, ipamConfig, serverClaims, secrets, ignitionData, retry, rendered>>
        /\ UNCHANGED callVars

\* An actor of the metal cluster clears the owner references of an
\* IPAddressClaim.
EnvClearOwnerReferences ==
    \E m \in Machines, k \in IPAMKeys :
        /\ ipClaims[<<m, k>>].exists
        /\ ipClaims[<<m, k>>].owners # {}
        /\ ipClaims' = [ipClaims EXCEPT ![<<m, k>>].owners = {}]
        /\ last' = EnvStep("EnvClearOwnerReferences", m)
        /\ UNCHANGED <<nodeNamePolicy, ipamConfig, serverClaims, secrets, ignitionData, retry, rendered>>
        /\ UNCHANGED callVars

\* The store removes a ServerClaim whose deletion was requested, once its
\* finalizers are gone.
EnvFinalize ==
    \E m \in DOMAIN serverClaims :
        /\ serverClaims[m].exists
        /\ serverClaims[m].deleting
        /\ serverClaims' = [serverClaims EXCEPT ![m] = NoServerClaim]
        /\ retry' = [retry EXCEPT ![m] = RetryIdle]
        /\ rendered' = [rendered EXCEPT ![m] = NoSecret]
        /\ last' = EnvStep("EnvFinalize", m)
        /\ UNCHANGED <<nodeNamePolicy, ipamConfig, ipClaims, secrets, ignitionData>>
        /\ UNCHANGED callVars

\* ---- validation of IPAddressClaims ---------------------------------------------
\* ValidateIPAddressClaim(ipClaim, serverClaim, serverClaimName, serverClaimNamespace):
\* TRUE iff the error list is empty.
ValidateIPAddressClaim(ipClaim, scName, serverClaimName, serverClaimNamespace) ==
    /\ ipClaim.labelName = serverClaimName
    /\ ipClaim.labelNamespace = serverClaimNamespace
    /\ ipClaim.owners # {}
    /\ \A ownerRef \in ipClaim.owners :
          ~(\/ ownerRef.kind # ServerClaimKind
            \/ ownerRef.name # scName
            \/ ownerRef.apiVersion # MetalGroupVersion)

\* ValidateIPAddressClaim(ipClaim, metalNamespace, machineName) as called by
\* getIPAddressClaimsMetadata: labels and a non-empty AddressRef.
ValidateIPAddressClaimBound(ipClaim, metalNamespace, machineName) ==
    /\ ipClaim.addressRef
    /\ ipClaim.labelName = machineName
    /\ ipClaim.labelNamespace = metalNamespace

\* ---- InitializeMachine ------------------------------------------------------------
\* "getServerAfter" is the Get of the Server by the getNodeName that follows
\* the power-on patch.
InitializeFaults ==
    {"none", "getSC", "getIPC", "getIP", "getServer", "probeSecret",
     "applySecret", "patchSC", "getServerAfter"}

\* getIPAddressClaimsMetadata over the keys k..NumIPAM: "ok", "unavailable"
\* (the claim fails validation), "notfound" (no such claim) or the name of
\* the store operation that failed.
RECURSIVE getIPAddressClaimsMetadata(_, _, _, _, _)
getIPAddressClaimsMetadata(ipc, m, ipam, k, fault) ==
    IF k > NumIPAM THEN "ok"
    ELSE IF ipam[k] = "absent" THEN getIPAddressClaimsMetadata(ipc, m, ipam, k + 1, fault)
    ELSE IF fault = "getIPC" THEN "getIPC"
    ELSE IF ~ipc[<<m, k>>].exists THEN "notfound"
    ELSE IF ~ValidateIPAddressClaimBound(ipc[<<m, k>>], MetalNamespace, m) THEN "unavailable"
    ELSE IF fault = "getIP" THEN "getIP"
    ELSE getIPAddressClaimsMetadata(ipc, m, ipam, k + 1, fault)

\* A getServerClaim that does not look at the server reference.
getServerClaimUnbound(sc, fault) ==
    IF fault = "getSC" THEN "getSC"
    ELSE IF ~sc.exists THEN "notfound"
    ELSE "ok"

\* getServerClaim: "ok", "unavailable" (no server reference), "notfound" or
\* "getSC" (the Get failed).
getServerClaim(sc, fault) ==
    IF fault = "getSC" THEN "getSC"
    ELSE IF ~sc.exists THEN "notfound"
    ELSE IF sc.serverRef = NoServer THEN "unavailable"
    ELSE "ok"

\* ignition.Render: the ignition document for a hostname and user data, a
\* deterministic function of its inputs.
Render(hostname, userData) == <<"ignition", hostname, userData>>

\* A generateIgnitionSecret that leaves the Secret's data empty.
generateIgnitionSecretWithoutData(hostname, userData) == <<>>

\* generateIgnitionSecret: the bytes of the Secret under the key "ignition".
generateIgnitionSecret(hostname, userData) == Render(hostname, userData)

\* The apply of the ignition Secret: its data replaces what the key held.
applyIgnitionSecret(data, name, bytes) ==
    IF bytes # <<>> THEN data \cup {name} ELSE data \ {name}

\* A power-on patch that leaves the ignition secret reference alone.
powerOnPatchWithoutIgnition(sc, ignitionSecretName) == [sc EXCEPT !.power = PowerOn]

\* The merge patch of createIgnitionAndPowerOnServer.
powerOnPatch(sc, ignitionSecretName) ==
    [sc EXCEPT !.power = PowerOn, !.ignitionSecretRef = ignitionSecretName]

\* The code InitializeMachine returns when getServerClaim or
\* getIPAddressClaimsMetadata reports unavailable.
InitializeUnavailableCode == Uninitialized

\* An InitializeMachine that patches the ServerClaim before it applies the
\* ignition Secret.
InitializeOutcomePatchingFirst(policy, scOld, ipc, secs, dataOld, req, fault) ==
    LET m == req.m
        got == getServerClaim(scOld, fault)
        meta == getIPAddressClaimsMetadata(ipc, m, req.spec.ipam, 1, fault)
        nn == getNodeName(policy, m, scOld, fault = "getServer")
        name == getIgnitionNameForMachine(secs, m,
                    IF fault = "probeSecret" THEN "error" ELSE "none")
        data == applyIgnitionSecret(dataOld, name,
                    generateIgnitionSecret(nn.name, req.userData))
        Out(sc, sec, dat, code, node, wrote, fired, derived) ==
            [sc |-> sc, secrets |-> sec, data |-> dat, code |-> code, node |-> node,
             wrote |-> wrote, fired |-> fired, name |-> derived]
        Fail(code, fired) ==
            Out(scOld, secs, dataOld, code, NoName, NoSecret, fired, NoSecret)
    IN  IF got = "unavailable" THEN Fail(InitializeUnavailableCode, "none")
        ELSE IF got = "notfound" THEN Fail(Internal, "none")
        ELSE IF got # "ok" THEN Fail(Internal, got)
        ELSE IF meta = "unavailable" THEN Fail(InitializeUnavailableCode, "none")
        ELSE IF meta = "notfound" THEN Fail(Internal, "none")
        ELSE IF meta # "ok" THEN Fail(Internal, meta)
        ELSE IF ~nn.ok THEN Fail(Internal, IF nn.io THEN "getServer" ELSE "none")
        ELSE IF fault = "getServer" THEN Fail(Internal, fault)
        ELSE IF fault = "applySecret"
             THEN Out(powerOnPatch(scOld, name), secs, dataOld, Internal, NoName, NoSecret,
                      fault, name)
        ELSE IF fault = "patchSC"
             THEN Out(scOld, secs \cup {name}, data, Internal, NoName, NoSecret, fault, name)
        ELSE IF fault = "getServerAfter" /\ policy = NodeNamePolicyBMCName
             THEN Out(powerOnPatch(scOld, name), secs \cup {name}, data, Internal, NoName,
                      name, fault, name)
        ELSE Out(powerOnPatch(scOld, name), secs \cup {name}, data, OK, nn.name, name,
                 IF fault = "probeSecret" THEN fault ELSE "none", name)

\* InitializeMachine for a gated request: the store after the call, the code,
\* the node name and the name derived for the ignition Secret.
InitializeOutcome(policy, scOld, ipc, secs, dataOld, req, fault) ==
    LET m == req.m
        got == getServerClaim(scOld, fault)
        meta == getIPAddressClaimsMetadata(ipc, m, req.spec.ipam, 1, fault)
        nn == getNodeName(policy, m, scOld, fault = "getServer")
        name == getIgnitionNameForMachine(secs, m,
                    IF fault = "probeSecret" THEN "error" ELSE "none")
        data == applyIgnitionSecret(dataOld, name,
                    generateIgnitionSecret(nn.name, req.userData))
        Out(sc, sec, dat, code, node, wrote, fired, derived) ==
            [sc |-> sc, secrets |-> sec, data |-> dat, code |-> code, node |-> node,
             wrote |-> wrote, fired |-> fired, name |-> derived]
        Fail(code, fired) ==
            Out(scOld, secs, dataOld, code, NoName, NoSecret, fired, NoSecret)
    IN  IF got = "unavailable" THEN Fail(InitializeUnavailableCode, "none")
        ELSE IF got = "notfound" THEN Fail(Internal, "none")
        ELSE IF got # "ok" THEN Fail(Internal, got)
        ELSE IF meta = "unavailable" THEN Fail(InitializeUnavailableCode, "none")
        ELSE IF meta = "notfound" THEN Fail(Internal, "none")
        ELSE IF meta # "ok" THEN Fail(Internal, meta)
        ELSE IF ~nn.ok THEN Fail(Internal, IF nn.io THEN "getServer" ELSE "none")
        ELSE IF fault = "getServer" THEN Fail(Internal, fault)
        ELSE IF fault = "applySecret"
             THEN Out(scOld, secs, dataOld, Internal, NoName, NoSecret, fault, name)
        ELSE IF fault = "patchSC"
             THEN Out(scOld, secs \cup {name}, data, Internal, NoName, NoSecret, fault, name)
        ELSE IF fault = "getServerAfter" /\ policy = NodeNamePolicyBMCName
             THEN Out(powerOnPatch(scOld, name), secs \cup {name}, data, Internal, NoName,
                      name, fault, name)
        ELSE Out(powerOnPatch(scOld, name), secs \cup {name}, data, OK, nn.name, name,
                 IF fault = "probeSecret" THEN fault ELSE "none", name)

InitializeMachineFor(reqs) ==
    \E req \in reqs :
        LET g == Gate(req)
            m == req.m
        IN  IF g # "ok"
            THEN /\ last' = Step("Initialize", m, Received(req), g, "none", GateCode(g), NoName, Nil,
                                 retry[m], {})
                 /\ UNCHANGED <<nodeNamePolicy, ipamConfig, serverClaims, ipClaims, secrets, ignitionData,
                                retry, rendered>>
            ELSE \E fault \in InitializeFaults :
                 \E o \in {InitializeOutcome(nodeNamePolicy, serverClaims[m], ipClaims,
                                              secrets, ignitionData, req, fault)} :
                     /\ o.fired = fault
                     /\ serverClaims' = [serverClaims EXCEPT ![m] = o.sc]
                     /\ secrets' = o.secrets
                     /\ ignitionData' = o.data
                     /\ rendered' = [rendered EXCEPT ![m] =
                            IF o.wrote # NoSecret THEN o.wrote ELSE rendered[m]]
                     /\ last' = [Step("Initialize", m, Received(req), g, fault, o.code,
                                      o.node, Nil, retry[m], {})
                                 EXCEPT !.ignitionName = o.name]
                     /\ UNCHANGED <<nodeNamePolicy, ipamConfig, ipClaims, retry>>

\* ---- GetMachineStatus --------------------------------------------------------------
StatusFaults == {"none", "getSC", "getIPC", "getServer"}

\* validateIPAddressClaims over the keys k..NumIPAM: "ok", "invalid" (an entry
\* without IPAMRef, no such claim, a claim that fails validation or is not
\* bound) or "getIPC" (the Get failed).
RECURSIVE validateIPAddressClaims(_, _, _, _, _)
validateIPAddressClaims(ipc, m, ipam, k, fault) ==
    IF k > NumIPAM THEN "ok"
    ELSE IF ipam[k] = "absent" THEN validateIPAddressClaims(ipc, m, ipam, k + 1, fault)
    ELSE IF ipam[k] = "noref" THEN "invalid"
    ELSE IF fault = "getIPC" THEN "getIPC"
    ELSE IF ~ipc[<<m, k>>].exists THEN "invalid"
    ELSE IF ~ValidateIPAddressClaim(ipc[<<m, k>>], m, m, MetalNamespace) THEN "invalid"
    ELSE IF ~ipc[<<m, k>>].addressRef THEN "invalid"
    ELSE validateIPAddressClaims(ipc, m, ipam, k + 1, fault)

\* The code of a failed read.
StatusFailedReadCode == Internal

\* The code GetMachineStatus returns when validateIPAddressClaims fails.
StatusInvalidClaimsCode == NotFound

\* A GetMachineStatus that does not look at the recreate annotation.
GetMachineStatusIgnoringAnnotation(policy, sc, ipc, req, fault) ==
    LET m == req.m
        nn == getNodeName(policy, m, sc, fault = "getServer")
        valid == validateIPAddressClaims(ipc, m, req.spec.ipam, 1, fault)
        Out(code, node, fired) == [code |-> code, node |-> node, fired |-> fired]
    IN  IF fault = "getSC" THEN Out(Internal, NoName, fault)
        ELSE IF ~sc.exists THEN Out(NotFound, NoName, "none")
        ELSE IF valid # "ok"
             THEN Out(StatusInvalidClaimsCode, NoName,
                      IF valid = "getIPC" THEN valid ELSE "none")
        ELSE IF sc.power # PowerOn THEN Out(Uninitialized, NoName, "none")
        ELSE IF ~nn.ok THEN Out(Internal, NoName, IF nn.io THEN "getServer" ELSE "none")
        ELSE Out(OK, nn.name, "none")

\* A GetMachineStatus that does not look at the power state.
GetMachineStatusIgnoringPower(policy, sc, ipc, req, fault) ==
    LET m == req.m
        nn == getNodeName(policy, m, sc, fault = "getServer")
        valid == validateIPAddressClaims(ipc, m, req.spec.ipam, 1, fault)
        Out(code, node, fired) == [code |-> code, node |-> node, fired |-> fired]
    IN  IF fault = "getSC" THEN Out(Internal, NoName, fault)
        ELSE IF ~sc.exists THEN Out(NotFound, NoName, "none")
        ELSE IF sc.recreate THEN Out(NotFound, NoName, "none")
        ELSE IF valid # "ok"
             THEN Out(StatusInvalidClaimsCode, NoName,
                      IF valid = "getIPC" THEN valid ELSE "none")
        ELSE IF ~nn.ok THEN Out(Internal, NoName, IF nn.io THEN "getServer" ELSE "none")
        ELSE Out(OK, nn.name, "none")

\* GetMachineStatus for a gated request: [code, node, fired].
GetMachineStatusOutcome(policy, sc, ipc, req, fault) ==
    LET m == req.m
        nn == getNodeName(policy, m, sc, fault = "getServer")
        valid == validateIPAddressClaims(ipc, m, req.spec.ipam, 1, fault)
        Out(code, node, fired) == [code |-> code, node |-> node, fired |-> fired]
    IN  IF fault = "getSC" THEN Out(Internal, NoName, fault)
        ELSE IF ~sc.exists THEN Out(NotFound, NoName, "none")
        ELSE IF sc.recreate THEN Out(NotFound, NoName, "none")
        ELSE IF valid # "ok"
             THEN Out(StatusInvalidClaimsCode, NoName,
                      IF valid = "getIPC" THEN valid ELSE "none")
        ELSE IF sc.power # PowerOn THEN Out(Uninitialized, NoName, "none")
        ELSE IF ~nn.ok THEN Out(Internal, NoName, IF nn.io THEN "getServer" ELSE "none")
        ELSE Out(OK, nn.name, "none")

\* A GetMachineStatus that deletes the ServerClaim it reports as NotFound.
GetMachineStatusForDeleting(reqs) ==
    \E req \in reqs :
        LET g == Gate(req)
            m == req.m
        IN  IF g # "ok"
            THEN /\ last' = Step("GetStatus", m, Received(req), g, "none", GateCode(g), NoName, Nil,
                                 retry[m], {})
                 /\ UNCHANGED <<nodeNamePolicy, ipamConfig, serverClaims, ipClaims, secrets, ignitionData,
                                retry, rendered>>
            ELSE \E fault \in StatusFaults :
                 \E o \in {GetMachineStatusOutcome(nodeNamePolicy, serverClaims[m],
                                                   ipClaims, req, fault)} :
                     /\ o.fired = fault
                     /\ last' = Step("GetStatus", m, Received(req), g, fault, o.code, o.node, Nil,
                                     retry[m], {})
                     /\ serverClaims' = IF o.code = NotFound
                                        THEN [serverClaims EXCEPT ![m] = NoServerClaim]
                                        ELSE serverClaims
                     /\ UNCHANGED <<nodeNamePolicy, ipamConfig, ipClaims,
                                    secrets, ignitionData, retry, rendered>>

GetMachineStatusFor(reqs) ==
    \E req \in reqs :
        LET g == Gate(req)
            m == req.m
        IN  IF g # "ok"
            THEN /\ last' = Step("GetStatus", m, Received(req), g, "none", GateCode(g), NoName, Nil,
                                 retry[m], {})
                 /\ UNCHANGED <<nodeNamePolicy, ipamConfig, serverClaims, ipClaims, secrets, ignitionData,
                                retry, rendered>>
            ELSE \E fault \in StatusFaults :
                 \E o \in {GetMachineStatusOutcome(nodeNamePolicy, serverClaims[m],
                                                   ipClaims, req, fault)} :
                     /\ o.fired = fault
                     /\ last' = Step("GetStatus", m, Received(req), g, fault, o.code, o.node, Nil,
                                     retry[m], {})
                     /\ UNCHANGED <<nodeNamePolicy, ipamConfig, serverClaims, ipClaims,
                                    secrets, ignitionData, retry, rendered>>

\* ---- ListMachines ------------------------------------------------------------------
ListFaults == {"none", "list"}

\* The checks ListMachines starts with.
ListGate(req) ==
    IF isEmptyListMachinesRequest(req) THEN "empty"
    ELSE IF req.provider # ProviderName THEN "provider"
    ELSE IF ~GetProviderSpec(req) THEN "spec"
    ELSE "ok"

\* A list of every ServerClaim of the namespace, whatever its labels.
MachineListOfNamespace(scs, labels) ==
    {<<getProviderIDForServerClaim(m), m>> : m \in {x \in DOMAIN scs : scs[x].exists}}

\* The map ListMachines builds: providerID -> ServerClaim name, as a set of
\* pairs, from the ServerClaims that carry every label of the provider spec.
MachineList(scs, labels) ==
    {<<getProviderIDForServerClaim(m), m>> :
        m \in {x \in DOMAIN scs : scs[x].exists /\ labels \subseteq scs[x].labels}}

\* ListMachines for a request of reqs.
ListMachinesFor(reqs) ==
    \E req \in {r \in reqs : r.shape # "noMachine"} :
        LET g == ListGate(req)
            m == req.m
        IN  /\ \/ /\ g # "ok"
                  /\ last' = Step("List", m, Received(req), g, "none", GateCode(g), NoName, Nil,
                                  retry[m], {})
               \/ /\ g = "ok"
                  /\ \E fault \in ListFaults :
                        last' = IF fault = "list"
                                THEN Step("List", m, Received(req), g, fault, Internal, NoName, Nil,
                                          retry[m], {})
                                ELSE [Step("List", m, Received(req), g, fault, OK, NoName, Nil, retry[m],
                                           MachineList(serverClaims, req.spec.labels))
                                      EXCEPT !.labels = req.spec.labels]
            /\ UNCHANGED <<nodeNamePolicy, ipamConfig, serverClaims, ipClaims, secrets,
                           ignitionData, retry, rendered>>

\* ListMachines for the machine class of the other callbacks.
ListMachines == ListMachinesFor(Requests(ipamConfig)) /\ UNCHANGED callVars

\* ---- DeleteMachine -----------------------------------------------------------------
DeleteFaults == {"none", "probeSecret", "deleteSecret", "deleteSC", "pollSC"}

\* DeleteMachine reads the machine's name and the class's provider only: its
\* requests are the requests with the sample's provider spec and credential
\* secret.
DeleteRequests(ipam) ==
    {[r EXCEPT !.raw = "json", !.spec = SampleProviderSpec(ipam), !.userData = "abcd"] :
        r \in Requests(ipam)}

\* DeleteMachine checks the request's shape and provider only.
DeleteGate(req) ==
    IF isEmptyCreateRequest(req) THEN "empty"
    ELSE IF req.provider # ProviderName THEN "provider"
    ELSE "ok"

\* The wait loop polls every PollInterval seconds, at once for the first time,
\* until PollTimeout seconds have passed.
PollInterval == 5
PollTimeout == 600

\* The times, in seconds after the deletion request, at which the store may
\* remove the ServerClaim: at once, between two polls, between the last poll
\* before the timeout and the timeout, and not within the timeout.
Never == PollTimeout + 1
GoneTimes == {0, 3, PollTimeout - 2, Never}

\* A wait loop that reports the ServerClaim gone without looking.
PollWithoutWaiting(goneAt, race) == [ok |-> TRUE, elapsed |-> 0]

\* wait.PollUntilContextTimeout with the condition of DeleteMachine, the
\* store removing the ServerClaim at goneAt: [ok, elapsed].  The poll that is
\* due when the timeout expires runs only if it wins the race against the
\* expiry of the context.
PollUntilContextTimeout(goneAt, race) ==
    LET first == ((goneAt + PollInterval - 1) \div PollInterval) * PollInterval
    IN  IF first < PollTimeout \/ (first = PollTimeout /\ race)
        THEN [ok |-> TRUE, elapsed |-> first]
        ELSE [ok |-> FALSE, elapsed |-> PollTimeout]

\* A DeleteMachine that ignores the not-found of the ServerClaim's deletion as
\* it ignores that of the Secret's.
DeleteOutcomeIgnoringNotFound(scOld, secs, req, fault, goneAt, race) ==
    LET m == req.m
        poll == PollUntilContextTimeout(goneAt, race)
        scDeleting == [scOld EXCEPT !.deleting = TRUE]
        name == getIgnitionNameForMachine(secs, m,
                    IF fault = "probeSecret" THEN "error" ELSE "none")
        secs1 == secs \ {name}
        Out(sc, sec, code, fired, waited, elapsed) ==
            [sc |-> sc, secrets |-> sec, code |-> code, fired |-> fired,
             waited |-> waited, elapsed |-> elapsed, name |-> name]
        probe == IF fault = "probeSecret" THEN fault ELSE "none"
    IN  IF fault = "deleteSecret" THEN Out(scOld, secs, Unknown, fault, FALSE, 0)
        ELSE IF ~scOld.exists THEN Out(scOld, secs1, OK, probe, FALSE, 0)
        ELSE IF fault = "deleteSC" THEN Out(scOld, secs1, Unknown, fault, FALSE, 0)
        ELSE IF fault = "pollSC"
             THEN Out(scDeleting, secs1, DeadlineExceeded, fault, FALSE, 0)
        ELSE Out(IF goneAt <= poll.elapsed THEN NoServerClaim ELSE scDeleting, secs1,
                 IF poll.ok THEN OK ELSE DeadlineExceeded, probe, TRUE, poll.elapsed)

\* goneAt: when the store removes the ServerClaim; waited: the call reached
\* the end of the wait loop; elapsed: the time spent in the wait loop.
DeleteOutcome(scOld, secs, req, fault, goneAt, race) ==
    LET m == req.m
        poll == PollUntilContextTimeout(goneAt, race)
        scDeleting == [scOld EXCEPT !.deleting = TRUE]
        name == getIgnitionNameForMachine(secs, m,
                    IF fault = "probeSecret" THEN "error" ELSE "none")
        secs1 == secs \ {name}
        Out(sc, sec, code, fired, waited, elapsed) ==
            [sc |-> sc, secrets |-> sec, code |-> code, fired |-> fired,
             waited |-> waited, elapsed |-> elapsed, name |-> name]
        probe == IF fault = "probeSecret" THEN fault ELSE "none"
    IN  IF fault = "deleteSecret" THEN Out(scOld, secs, Unknown, fault, FALSE, 0)
        ELSE IF ~scOld.exists THEN Out(scOld, secs1, NotFound, probe, FALSE, 0)
        ELSE IF fault = "deleteSC" THEN Out(scOld, secs1, Unknown, fault, FALSE, 0)
        ELSE IF fault = "pollSC"
             THEN Out(scDeleting, secs1, DeadlineExceeded, fault, FALSE, 0)
        ELSE Out(IF goneAt <= poll.elapsed THEN NoServerClaim ELSE scDeleting, secs1,
                 IF poll.ok THEN OK ELSE DeadlineExceeded, probe, TRUE, poll.elapsed)

\* The inputs of DeleteMachine besides the request: the fault, and for a call
\* that can reach the wait loop, when the store removes the ServerClaim and
\* whether the poll due at the timeout wins the race.
DeleteInputs ==
    {[fault |-> f, goneAt |-> Never, race |-> FALSE] : f \in DeleteFaults} \cup
    {[fault |-> f, goneAt |-> g, race |-> FALSE] :
        f \in {"none", "probeSecret"}, g \in GoneTimes} \cup
    {[fault |-> f, goneAt |-> PollTimeout - 2, race |-> TRUE] :
        f \in {"none", "probeSecret"}}

DeleteMachineFor(reqs) ==
    \E req \in reqs :
        LET g == DeleteGate(req)
            m == req.m
        IN  IF g # "ok"
            THEN /\ last' = Step("Delete", m, Received(req), g, "none", GateCode(g), NoName, Nil,
                                 retry[m], {})
                 /\ UNCHANGED <<nodeNamePolicy, ipamConfig, serverClaims, ipClaims, secrets, ignitionData,
                                retry, rendered>>
            ELSE \E i \in DeleteInputs :
                 \E o \in {DeleteOutcome(serverClaims[m], secrets, req, i.fault,
                                          i.goneAt, i.race)} :
                     /\ o.fired = i.fault
                     /\ o.waited \/ (i.goneAt = Never /\ ~i.race)
                     /\ serverClaims' = [serverClaims EXCEPT ![m] = o.sc]
                     /\ secrets' = o.secrets
                     /\ ignitionData' = ignitionData \cap o.secrets
                     /\ retry' = [retry EXCEPT ![m] =
                            IF o.sc.exists THEN retry[m] ELSE RetryIdle]
                     /\ rendered' = [rendered EXCEPT ![m] =
                            IF o.sc.exists THEN rendered[m] ELSE NoSecret]
                     /\ last' = [Step("Delete", m, Received(req), g, i.fault, o.code, NoName, Nil,
                                      retry[m], {})
                                 EXCEPT !.elapsed = o.elapsed, !.ignitionName = o.name]
                     /\ UNCHANGED <<nodeNamePolicy, ipamConfig, ipClaims>>

CreateMachine == CreateMachineFor(Requests(ipamConfig)) /\ UNCHANGED callVars

InitializeMachine == InitializeMachineFor(Requests(ipamConfig)) /\ UNCHANGED callVars

GetMachineStatus == GetMachineStatusFor(Requests(ipamConfig)) /\ UNCHANGED callVars

DeleteMachine == DeleteMachineFor(DeleteRequests(ipamConfig)) /\ UNCHANGED callVars

Next ==
    \/ CreateMachine
    \/ InitializeMachine
    \/ GetMachineStatus
    \/ ListMachines
    \/ DeleteMachine
    \/ EnvBindServer
    \/ EnvBindIPAddress
    \/ EnvClearOwnerReferences
    \/ EnvFinalize

Spec == Init /\ [][Next]_vars

\* ---- ListMachines over the ServerClaims of several machine classes ---------------
\* The namespace holds the ServerClaims of any number of machine classes;
\* ListMachines reads the provider spec's labels and the ServerClaims' names
\* and labels only.
ListNames == {"machine-0", "machine-1"}

\* The labels of a second machine class of the same shoot namespace.
OtherLabels ==
    {<<"shoot-name", "other-shoot">>, <<"shoot-namespace", "my-shoot-namespace">>}

\* The labels of the provider specs of the machine classes: the sample's, the
\* second class's, one label both share, and none.
ListLabelSets == {SampleLabels, OtherLabels, SampleLabels \cap OtherLabels, {}}

\* The ServerClaims CreateMachine creates for these machine classes.
ListedClaims ==
    {NoServerClaim} \cup
    {createServerClaim(NoServerClaim,
                       [SampleProviderSpec([k \in IPAMKeys |-> "absent"])
                            EXCEPT !.labels = l]) : l \in ListLabelSets}

\* The ListMachines requests of these machine classes.
ListRequests ==
    {[r EXCEPT !.spec.labels = l] :
        r \in Requests([k \in IPAMKeys |-> "absent"]), l \in ListLabelSets}

ListInit ==
    /\ Standby
    /\ nodeNamePolicy = NodeNamePolicyServerClaimName
    /\ ipamConfig = [k \in IPAMKeys |-> "absent"]
    /\ serverClaims \in [ListNames -> ListedClaims]
    /\ ipClaims = [c \in Machines \X IPAMKeys |-> NoIPAddressClaim]
    /\ secrets = {}
    /\ ignitionData = {}
    /\ retry = [m \in Machines |-> RetryIdle]
    /\ rendered = [m \in Machines |-> NoSecret]
    /\ last = EnvStep("Init", CHOOSE m \in Machines : TRUE)

ListMachinesOfClasses == ListMachinesFor(ListRequests) /\ UNCHANGED callVars

ListNext == ListMachinesOfClasses

ListSpec == ListInit /\ [][ListNext]_vars

\* ---- the callbacks on malformed requests ------------------------------------------
\* The requests of a caller that may get anything wrong.
GateRequests ==
    ValidRequests(ipamConfig) \cup MalformedRequests(ipamConfig)
        \cup EmptyUserDataRequests(ipamConfig)

CreateMachineOfAny == CreateMachineFor(GateRequests) /\ UNCHANGED callVars

InitializeMachineOfAny == InitializeMachineFor(GateRequests) /\ UNCHANGED callVars

GetMachineStatusOfAny == GetMachineStatusFor(GateRequests) /\ UNCHANGED callVars

ListMachinesOfAny == ListMachinesFor(GateRequests) /\ UNCHANGED callVars

DeleteMachineOfAny == DeleteMachineFor(GateRequests) /\ UNCHANGED callVars

GateNext ==
    \/ CreateMachineOfAny
    \/ InitializeMachineOfAny
    \/ GetMachineStatusOfAny
    \/ ListMachinesOfAny
    \/ DeleteMachineOfAny
    \/ EnvBindServer

\* The provider as constructed with the default node-name policy, over a store
\* without Secrets.
GateInit ==
    /\ Init
    /\ nodeNamePolicy = NodeNamePolicyServerClaimName
    /\ secrets = {}

GateSpec == GateInit /\ [][GateNext]_vars

\* ---- concurrent CreateMachine calls through the client provider -------------------
\* The machine controller makes two CreateMachine calls for the same machine
\* with the same request; each call runs its store operations one by one, each
\* inside one scope of the client provider, while the kubeconfig watcher may
\* replace the provider's client.
Callers == {1, 2}

\* The number of times the watcher replaces the client.
MaxSwaps == 2

ConcMachine == CHOOSE m \in Machines : TRUE

\* The request of both calls.
ConcRequest == CHOOSE r \in ValidRequests(ipamConfig) : r.m = ConcMachine

\* The first entry of the IPAM configuration at or after k, 0 when there is
\* none.
RECURSIVE NextIPAM(_, _)
NextIPAM(ipam, k) ==
    IF k > NumIPAM THEN 0
    ELSE IF ipam[k] = "absent" THEN NextIPAM(ipam, k + 1)
    ELSE k

\* A call that has returned code.
Returned(call, code) == [call EXCEPT !.pc = "done", !.code = code]

\* createIPAddressClaims from entry k on: the call's next store operation, or
\* its return for an entry without IPAMRef; past the last entry the call goes
\* on to ServerIsBound, or returns the name of the claim.
ToIPAddressClaims(call, policy, ipam, k) ==
    LET n == NextIPAM(ipam, k)
    IN  IF n # 0
        THEN IF ipam[n] = "noref" THEN Returned(call, Internal)
             ELSE [call EXCEPT !.pc = "applyIPC", !.k = n]
        ELSE IF policy # NodeNamePolicyServerClaimName
             THEN [call EXCEPT !.pc = "getSC"]
             ELSE Returned(call, OK)

\* getNodeName of a call that found its ServerClaim bound: a Get of the
\* Server under the BMCName policy, the name of the Server otherwise.
ToNodeName(call, policy) ==
    IF policy = NodeNamePolicyBMCName THEN [call EXCEPT !.pc = "getServer"]
    ELSE Returned(call, OK)

\* A setMetalClient that replaces the client without taking the mutex.
setMetalClientWithoutLock ==
    /\ gateway.client < MaxSwaps
    /\ gateway' = [gateway EXCEPT !.client = @ + 1]
    /\ UNCHANGED <<nodeNamePolicy, ipamConfig, serverClaims, ipClaims, secrets, ignitionData,
                   retry, rendered, last, calls, fleet>>

\* setMetalClient: under the mutex, build a client and store it in the provider.
setMetalClient ==
    /\ gateway.holder = 0
    /\ gateway.client < MaxSwaps
    /\ gateway' = [gateway EXCEPT !.client = @ + 1]
    /\ UNCHANGED <<nodeNamePolicy, ipamConfig, serverClaims, ipClaims, secrets, ignitionData,
                   retry, rendered, last, calls, fleet>>

\* SyncClient, entry: the call takes the mutex and is handed the provider's
\* client.
EnterScope(c) ==
    /\ calls[c].pc # "done"
    /\ ~calls[c].scope
    /\ gateway.holder = 0
    /\ gateway' = [gateway EXCEPT !.holder = c]
    /\ calls' = [calls EXCEPT ![c].scope = TRUE, ![c].client = gateway.client]
    /\ UNCHANGED <<nodeNamePolicy, ipamConfig, serverClaims, ipClaims, secrets, ignitionData,
                   retry, rendered, last, fleet>>

\* The call is inside the scope of SyncClient, at the store operation pc.
InScope(c, pc) == calls[c].pc = pc /\ calls[c].scope /\ gateway.holder = c

\* SyncClient, exit: the call after its store operation, the mutex released.
\* overlapped tells that the other call was between its first and its last
\* store operation.
LeaveScope(c, after) ==
    /\ calls' = [calls EXCEPT ![c] =
            [after EXCEPT !.scope = FALSE,
                          !.overlapped = @ \/ \E d \in Callers \ {c} :
                                               calls[d].pc \notin {"applySC", "done"}]]
    /\ gateway' = [gateway EXCEPT !.holder = 0]

\* createServerClaim: the apply of the ServerClaim.
CallApplyServerClaim(c) ==
    LET m == ConcMachine
        sc == createServerClaim(serverClaims[m], ConcRequest.spec)
    IN  /\ InScope(c, "applySC")
        /\ serverClaims' = [serverClaims EXCEPT ![m] = sc]
        /\ LeaveScope(c, ToIPAddressClaims([calls[c] EXCEPT !.sc = sc], nodeNamePolicy,
                                           ipamConfig, 1))
        /\ UNCHANGED <<nodeNamePolicy, ipamConfig, ipClaims, secrets, ignitionData, retry,
                       rendered, last, fleet>>

\* createIPAddressClaims: the apply of the IPAddressClaim of one entry.
CallApplyIPAddressClaim(c) ==
    LET m == ConcMachine
        k == calls[c].k
    IN  /\ InScope(c, "applyIPC")
        /\ ipClaims' = [ipClaims EXCEPT ![<<m, k>>] = applyIPAddressClaim(ipClaims[<<m, k>>], m)]
        /\ LeaveScope(c, ToIPAddressClaims(calls[c], nodeNamePolicy, ipamConfig, k + 1))
        /\ UNCHANGED <<nodeNamePolicy, ipamConfig, serverClaims, secrets, ignitionData, retry,
                       rendered, last, fleet>>

\* ServerIsBound: the Get of the ServerClaim into the call's copy.
CallGetServerClaim(c) ==
    LET m == ConcMachine
        sc == serverClaims[m]
    IN  /\ InScope(c, "getSC")
        /\ LeaveScope(c, IF ~sc.exists THEN Returned(calls[c], Internal)
                         ELSE [calls[c] EXCEPT !.sc = sc, !.bound = ServerIsBound(sc),
                                               !.pc = "patchSC"])
        /\ UNCHANGED <<nodeNamePolicy, ipamConfig, serverClaims, ipClaims, secrets, ignitionData,
                       retry, rendered, last, fleet>>

\* patchServerClaimWithRecreateAnnotation: the merge patch holds the
\* annotation when the call's copy differs from what the call wants.
CallPatchServerClaim(c) ==
    LET m == ConcMachine
        add == ~calls[c].bound
        sc == IF calls[c].sc.recreate # add
              THEN patchServerClaimWithRecreateAnnotation(serverClaims[m], add)
              ELSE serverClaims[m]
        patched == [calls[c] EXCEPT !.sc = sc]
    IN  /\ InScope(c, "patchSC")
        /\ serverClaims' = [serverClaims EXCEPT ![m] = sc]
        /\ LeaveScope(c, IF add THEN Returned(patched, Unavailable)
                         ELSE ToNodeName(patched, nodeNamePolicy))
        /\ UNCHANGED <<nodeNamePolicy, ipamConfig, ipClaims, secrets, ignitionData, retry,
                       rendered, last, fleet>>

\* getNodeName: the Get of the Server the call's copy of the ServerClaim
\* references.
CallGetServer(c) ==
    LET nn == getNodeName(nodeNamePolicy, ConcMachine, calls[c].sc, FALSE)
    IN  /\ InScope(c, "getServer")
        /\ LeaveScope(c, Returned(calls[c], IF nn.ok THEN OK ELSE Internal))
        /\ UNCHANGED <<nodeNamePolicy, ipamConfig, serverClaims, ipClaims, secrets, ignitionData,
                       retry, rendered, last, fleet>>

ConcNext ==
    \/ \E c \in Callers : EnterScope(c)
    \/ \E c \in Callers : CallApplyServerClaim(c)
    \/ \E c \in Callers : CallApplyIPAddressClaim(c)
    \/ \E c \in Callers : CallGetServerClaim(c)
    \/ \E c \in Callers : CallPatchServerClaim(c)
    \/ \E c \in Callers : CallGetServer(c)
    \/ setMetalClient

\* The ServerClaims the store can hold for the machine when the calls are
\* made: none, or the one CreateMachine applied, bound or not, with or without
\* the recreate annotation, and powered on by InitializeMachine when bound.
ConcServerClaims ==
    LET created == createServerClaim(NoServerClaim, ConcRequest.spec)
        off == {[created EXCEPT !.serverRef = s, !.recreate = r] :
                    s \in {NoServer} \cup Servers, r \in BOOLEAN}
        on == {powerOnPatch(sc, PlainIgnitionName(ConcMachine)) :
                    sc \in {x \in off : ServerIsBound(x)}}
    IN  {NoServerClaim} \cup off \cup on

\* The IPAddressClaims the store can hold for an entry with IPAMRef: none, or
\* the one CreateMachine applied, bound or not, or with its owner references
\* cleared.
ConcIPAddressClaims ==
    LET applied == applyIPAddressClaim(NoIPAddressClaim, ConcMachine)
    IN  {NoIPAddressClaim, applied, [applied EXCEPT !.addressRef = TRUE],
         [applied EXCEPT !.owners = {}]}

ConcInit ==
    /\ nodeNamePolicy \in NodeNamePolicies
    /\ ipamConfig \in IPAMConfigs
    /\ serverClaims \in [Machines -> ConcServerClaims]
    /\ ipClaims \in [Machines \X IPAMKeys -> ConcIPAddressClaims]
    /\ \A c \in Machines \X IPAMKeys :
            ipamConfig[c[2]] # "ref" => ipClaims[c] = NoIPAddressClaim
    /\ secrets = {serverClaims[m].ignitionSecretRef : m \in Machines} \ {NoSecret}
    /\ ignitionData = secrets
    /\ retry = [m \in Machines |-> RetryIdle]
    /\ rendered = [m \in Machines |-> serverClaims[m].ignitionSecretRef]
    /\ last = EnvStep("Init", ConcMachine)
    /\ calls = [c \in Callers |->
            [pc |-> "applySC", k |-> 0, scope |-> FALSE, client |-> 0,
             sc |-> NoServerClaim, bound |-> FALSE, code |-> "", overlapped |-> FALSE,
             began |-> [sc |-> serverClaims[ConcMachine], ipc |-> ipClaims]]]
    /\ gateway = [client |-> 0, holder |-> 0]
    /\ fleet = "off"

ConcSpec == ConcInit /\ [][ConcNext]_vars

\* ---- the retry protocol of the machine controller ---------------------------------
\* The machine controller drives one machine: it asks for the status and
\* follows the code of every response; the metal operator and the IPAM
\* operator bind what the calls create.  fleet is [next, faults]: the call the
\* controller makes next and the number of store operations that have failed.

\* The number of store operations that fail.
MaxFaults == 1

LiveMachine == CHOOSE m \in Machines : TRUE

\* The request of every call of the controller.
LiveRequest == CHOOSE r \in ValidRequests(ipamConfig) : r.m = LiveMachine

\* The calls the controller may make after call op has returned code.
Directives(op, code) ==
    IF code = NotFound THEN {"Create"}
    ELSE IF code = Uninitialized THEN {"Initialize"}
    ELSE IF code # OK THEN {op}
    ELSE IF op = "GetStatus" THEN {"done"}
    ELSE IF op = "Create" THEN {"Initialize", "GetStatus"}
    ELSE {"GetStatus"}

\* The controller after the call recorded in last': at most MaxFaults store
\* operations fail.
FleetFollows(op) ==
    /\ last'.fault # "none" => fleet.faults < MaxFaults
    /\ \E n \in Directives(op, last'.code) :
            fleet' = [next |-> n,
                      faults |-> IF last'.fault # "none" THEN fleet.faults + 1
                                 ELSE fleet.faults]
    /\ UNCHANGED <<calls, gateway>>

FleetGetMachineStatus ==
    /\ fleet.next = "GetStatus"
    /\ GetMachineStatusFor({LiveRequest})
    /\ FleetFollows("GetStatus")

FleetCreateMachine ==
    /\ fleet.next = "Create"
    /\ CreateMachineFor({LiveRequest})
    /\ FleetFollows("Create")

FleetInitializeMachine ==
    /\ fleet.next = "Initialize"
    /\ InitializeMachineFor({LiveRequest})
    /\ FleetFollows("Initialize")

FleetCall == FleetGetMachineStatus \/ FleetCreateMachine \/ FleetInitializeMachine

LiveNext ==
    \/ FleetGetMachineStatus
    \/ FleetCreateMachine
    \/ FleetInitializeMachine
    \/ EnvBindServer
    \/ EnvBindIPAddress

LiveInit ==
    /\ nodeNamePolicy \in NodeNamePolicies
    /\ ipamConfig \in IPAMConfigs
    /\ serverClaims = [m \in Machines |-> NoServerClaim]
    /\ ipClaims = [c \in Machines \X IPAMKeys |-> NoIPAddressClaim]
    /\ secrets \in SUBSET {[base |-> m, suffix |-> "-ignition"] : m \in Machines}
    /\ ignitionData \in SUBSET secrets
    /\ retry = [m \in Machines |-> RetryIdle]
    /\ rendered = [m \in Machines |-> NoSecret]
    /\ last = EnvStep("Init", LiveMachine)
    /\ calls = <<>>
    /\ gateway = [client |-> 0, holder |-> 0]
    /\ fleet = [next |-> "GetStatus", faults |-> 0]

\* The controller keeps calling, and the operators bind what there is to bind.
LiveSpec ==
    /\ LiveInit
    /\ [][LiveNext]_vars
    /\ WF_vars(FleetCall)
    /\ WF_vars(EnvBindServer)
    /\ WF_vars(EnvBindIPAddress)

\* ---- CreateMachine over IPAddressClaims that exist ---------------------------------
\* The namespace holds, under the names CreateMachine derives, IPAddressClaims
\* of any origin: with the labels of the machine, of another machine, of
\* another namespace or with none, bound or not, owned or not.
AdoptMachine == CHOOSE m \in Machines : TRUE

AdoptLabels ==
    {<<AdoptMachine, MetalNamespace>>, <<"machine-1", MetalNamespace>>,
     <<AdoptMachine, "other-ns">>, <<"", "">>}

\* The owner reference to the machine's ServerClaim, and owner references
\* that differ from it in name, kind or API version.
AdoptOwners ==
    {OwnerRef(AdoptMachine),
     [OwnerRef(AdoptMachine) EXCEPT !.name = "machine-1"],
     [OwnerRef(AdoptMachine) EXCEPT !.kind = "InvalidKind"],
     [OwnerRef(AdoptMachine) EXCEPT !.apiVersion = "v1"]}

AdoptClaims ==
    {NoIPAddressClaim} \cup
    {[exists |-> TRUE, labelName |-> l[1], labelNamespace |-> l[2], owners |-> ow,
      addressRef |-> a] :
        l \in AdoptLabels, ow \in SUBSET AdoptOwners, a \in BOOLEAN}

AdoptInit ==
    /\ Standby
    /\ nodeNamePolicy \in NodeNamePolicies
    /\ ipamConfig \in IPAMConfigs
    /\ serverClaims = [m \in Machines |-> NoServerClaim]
    /\ ipClaims \in [Machines \X IPAMKeys -> AdoptClaims]
    /\ \A c \in Machines \X IPAMKeys :
            ipamConfig[c[2]] # "ref" => ipClaims[c] = NoIPAddressClaim
    /\ secrets = {}
    /\ ignitionData = {}
    /\ retry = [m \in Machines |-> RetryIdle]
    /\ rendered = [m \in Machines |-> NoSecret]
    /\ last = EnvStep("Init", AdoptMachine)

CreateMachineAdopting == CreateMachineFor(ValidRequests(ipamConfig)) /\ UNCHANGED callVars

GetMachineStatusAdopting ==
    GetMachineStatusFor(ValidRequests(ipamConfig)) /\ UNCHANGED callVars

AdoptNext ==
    \/ CreateMachineAdopting
    \/ GetMachineStatusAdopting
    \/ EnvBindServer

AdoptSpec == AdoptInit /\ [][AdoptNext]_vars

\* ---- the callbacks for two machines of one namespace ------------------------------
\* The machine controller calls for the machines of PairNames; the machine
\* class has no IPAM configuration.
PairRequests == {[r EXCEPT !.m = n] : r \in ValidRequests(ipamConfig), n \in PairNames}

PairInit ==
    /\ Standby
    /\ nodeNamePolicy = NodeNamePolicyServerClaimName
    /\ ipamConfig = [k \in IPAMKeys |-> "absent"]
    /\ serverClaims = [m \in PairNames |-> NoServerClaim]
    /\ ipClaims = [c \in PairNames \X IPAMKeys |-> NoIPAddressClaim]
    /\ secrets = {}
    /\ ignitionData = {}
    /\ retry = [m \in PairNames |-> RetryIdle]
    /\ rendered = [m \in PairNames |-> NoSecret]
    /\ last = EnvStep("Init", "machine-0")

CreateMachineOfPair == CreateMachineFor(PairRequests) /\ UNCHANGED callVars

InitializeMachineOfPair == InitializeMachineFor(PairRequests) /\ UNCHANGED callVars

GetMachineStatusOfPair == GetMachineStatusFor(PairRequests) /\ UNCHANGED callVars

ListMachinesOfPair == ListMachinesFor(PairRequests) /\ UNCHANGED callVars

DeleteMachineOfPair == DeleteMachineFor(PairRequests) /\ UNCHANGED callVars

PairNext ==
    \/ CreateMachineOfPair
    \/ InitializeMachineOfPair
    \/ GetMachineStatusOfPair
    \/ ListMachinesOfPair
    \/ DeleteMachineOfPair
    \/ EnvBindServer
    \/ EnvFinalize

PairSpec == PairInit /\ [][PairNext]_vars

\* ---- the wait loop of DeleteMachine, poll by poll -------------------------------
\* One DeleteMachine call at a time is followed through its wait loop: calls
\* is empty between two calls and holds the call in progress otherwise, with
\* its place (pc), the seconds it has spent in the loop (now), whether its
\* caller has cancelled its context, and the code it returns.
WaitMachine == CHOOSE m \in Machines : TRUE

\* The request of every call.
WaitRequest == CHOOSE r \in ValidRequests(ipamConfig) : r.m = WaitMachine

\* A context that is never done.
ContextNeverDone(call) == FALSE

\* ctx.Err() # nil: the caller has cancelled the context of the call.
ctxErr(call) == call.cancelled

\* DeleteMachine up to its wait loop: the Secret and the ServerClaim are
\* deleted, and the call returns at once when one of the deletions fails or
\* the ServerClaim is not found.
DeleteMachineBegin ==
    /\ calls = <<>>
    /\ \E fault \in DeleteFaults \ {"pollSC"} :
       \E o \in {DeleteOutcome(serverClaims[WaitMachine], secrets, WaitRequest, fault,
                                Never, FALSE)} :
            /\ o.fired = fault
            /\ serverClaims' = [serverClaims EXCEPT ![WaitMachine] = o.sc]
            /\ secrets' = o.secrets
            /\ ignitionData' = ignitionData \cap o.secrets
            /\ calls' = <<[pc |-> IF o.waited THEN "poll" ELSE "done", now |-> 0,
                           cancelled |-> FALSE,
                           code |-> IF o.waited THEN Nil ELSE o.code]>>
    /\ UNCHANGED <<nodeNamePolicy, ipamConfig, ipClaims, retry, rendered, last, gateway, fleet>>

\* The caller cancels the context of the call in progress.
ContextCancel ==
    /\ calls # <<>>
    /\ calls[1].pc # "done"
    /\ ~calls[1].cancelled
    /\ calls' = <<[calls[1] EXCEPT !.cancelled = TRUE]>>
    /\ UNCHANGED <<nodeNamePolicy, ipamConfig, serverClaims, ipClaims, secrets, ignitionData,
                   retry, rendered, last, gateway, fleet>>

\* The condition of the wait loop: a Get of the ServerClaim.  The Get fails
\* under a cancelled context or for a fault of the store, and the loop ends
\* with its error; not-found ends the loop without error.
PollCondition ==
    /\ calls # <<>>
    /\ calls[1].pc = "poll"
    /\ \E fault \in {"none", "pollSC"} :
            calls' = IF ctxErr(calls[1]) \/ fault = "pollSC"
                     THEN <<Returned(calls[1], DeadlineExceeded)>>
                     ELSE IF ~serverClaims[WaitMachine].exists
                     THEN <<Returned(calls[1], OK)>>
                     ELSE <<[calls[1] EXCEPT !.pc = "sleep"]>>
    /\ UNCHANGED <<nodeNamePolicy, ipamConfig, serverClaims, ipClaims, secrets, ignitionData,
                   retry, rendered, last, gateway, fleet>>

\* The select of wait.PollUntilContextTimeout between two polls: the loop
\* ends with the context's error once the context is cancelled or PollTimeout
\* has passed, and goes on to the next poll after PollInterval otherwise.  The
\* poll that is due when the timeout expires runs only if it wins the race
\* against the expiry.
PollSelect ==
    /\ calls # <<>>
    /\ calls[1].pc = "sleep"
    /\ IF ctxErr(calls[1])
       THEN calls' = <<Returned(calls[1], DeadlineExceeded)>>
       ELSE IF calls[1].now + PollInterval < PollTimeout
       THEN calls' = <<[calls[1] EXCEPT !.pc = "poll", !.now = @ + PollInterval]>>
       ELSE \/ calls' = <<Returned([calls[1] EXCEPT !.now = PollTimeout], DeadlineExceeded)>>
            \/ /\ calls[1].now + PollInterval = PollTimeout
               /\ calls' = <<[calls[1] EXCEPT !.pc = "poll", !.now = PollTimeout]>>
    /\ UNCHANGED <<nodeNamePolicy, ipamConfig, serverClaims, ipClaims, secrets, ignitionData,
                   retry, rendered, last, gateway, fleet>>

\* The call returns its code to the caller.
DeleteMachineReturn ==
    /\ calls # <<>>
    /\ calls[1].pc = "done"
    /\ last' = [Step("Delete", WaitMachine, Received(WaitRequest), "ok", "none",
                     calls[1].code, NoName, Nil, retry[WaitMachine], {})
                EXCEPT !.elapsed = calls[1].now]
    /\ calls' = <<>>
    /\ UNCHANGED <<nodeNamePolicy, ipamConfig, serverClaims, ipClaims, secrets, ignitionData,
                   retry, rendered, gateway, fleet>>

\* CreateMachine between two DeleteMachine calls.
CreateMachineBetweenDeletes ==
    /\ calls = <<>>
    /\ CreateMachineFor({WaitRequest})
    /\ UNCHANGED callVars

WaitNext ==
    \/ CreateMachineBetweenDeletes
    \/ DeleteMachineBegin
    \/ ContextCancel
    \/ PollCondition
    \/ PollSelect
    \/ DeleteMachineReturn
    \/ EnvFinalize

\* The provider as constructed with the default node-name policy and a machine
\* class without IPAM configuration.
WaitInit ==
    /\ Init
    /\ nodeNamePolicy = NodeNamePolicyServerClaimName
    /\ ipamConfig = [k \in IPAMKeys |-> "absent"]

\* The goroutine of a call in progress runs and its timers fire.
WaitSpec ==
    /\ WaitInit
    /\ [][WaitNext]_vars
    /\ WF_vars(PollCondition)
    /\ WF_vars(PollSelect)

\* ---- properties -------------------------------------------------------------------
\* The step just taken is a callback whose request passed the checks and
\* whose store operations all succeeded.
Clean == last.gate = "ok" /\ last.fault = "none"

\* The node-name policy needs the ServerClaim to be bound.
PolicyNeedsBinding == nodeNamePolicy # NodeNamePolicyServerClaimName

\* C1: in every step, a ServerClaim comes into existence only through
\* CreateMachine and then with Power = PowerOff; whatever CreateMachine writes
\* to a ServerClaim has Power = PowerOff; and Power becomes PowerOn only in an
\* InitializeMachine step on a ServerClaim that already exists.
C1_PowerOnOnlyByInitialize ==
    [][\A m \in Machines :
          /\ (~serverClaims[m].exists /\ serverClaims'[m].exists)
                => (last'.op = "Create" /\ serverClaims'[m].power = PowerOff)
          /\ (last'.op = "Create" /\ serverClaims'[m] # serverClaims[m])
                => serverClaims'[m].power = PowerOff
          /\ (serverClaims'[m].power = PowerOn /\ serverClaims[m].power # PowerOn)
                => (last'.op = "Initialize" /\ serverClaims[m].exists)]_vars

\* C1 witness: an InitializeMachine has just powered on a ServerClaim.
C1_Witness ==
    \E m \in Machines :
        /\ last.op = "Initialize" /\ last.m = m /\ last.code = OK
        /\ serverClaims[m].exists /\ serverClaims[m].power = PowerOn

\* C2: in every reachable state, a ServerClaim that is PowerOn has an
\* IgnitionSecretRef, and it names the secret rendered by the InitializeMachine
\* call that powered it on, a secret of this machine.
C2_PowerOnHasRenderedIgnition ==
    \A m \in Machines :
        (serverClaims[m].exists /\ serverClaims[m].power = PowerOn)
            => /\ serverClaims[m].ignitionSecretRef # NoSecret
               /\ serverClaims[m].ignitionSecretRef = rendered[m]
               /\ serverClaims[m].ignitionSecretRef.base = m

\* C2 witness: a PowerOn ServerClaim whose IgnitionSecretRef names a secret
\* of the store, after an InitializeMachine found the old naming in use.
C2_Witness ==
    \E m \in Machines :
        /\ serverClaims[m].power = PowerOn
        /\ serverClaims[m].ignitionSecretRef \in secrets
        /\ serverClaims[m].ignitionSecretRef.suffix = "-ignition"
        /\ rendered[m] = serverClaims[m].ignitionSecretRef

\* C3 as stated: in every reachable state a ServerClaim carries the recreate
\* annotation exactly when the policy is ServerName or BMCName and the
\* ServerClaim has no ServerRef.
C3_AnnotationIffUnbound ==
    \A m \in Machines :
        serverClaims[m].exists
            => (serverClaims[m].recreate
                    <=> (PolicyNeedsBinding /\ serverClaims[m].serverRef = NoServer))

\* C3 amended: the recreate annotation is never present under the
\* ServerClaimName policy; after a CreateMachine whose operations all
\* succeeded it is present if the call observed the ServerClaim unbound and
\* absent if it observed it bound.
C3_AnnotationFollowsCreate ==
    \A m \in Machines :
        /\ serverClaims[m].recreate => PolicyNeedsBinding
        /\ (last.op = "Create" /\ last.m = m /\ Clean /\ last.observed = "unbound")
              => (serverClaims[m].exists /\ serverClaims[m].recreate)
        /\ (last.op = "Create" /\ last.m = m /\ Clean /\ last.observed = "bound")
              => (serverClaims[m].exists /\ ~serverClaims[m].recreate)

\* C3 witness: a CreateMachine that observed the binding has just cleared the
\* annotation an earlier CreateMachine had set.
C3_Witness ==
    \E m \in Machines :
        /\ last.op = "Create" /\ last.m = m /\ Clean
        /\ last.observed = "bound" /\ last.prevRetry = "bound"
        /\ ~serverClaims[m].recreate

\* C4: a GetMachineStatus whose request passes the checks and whose read of
\* the ServerClaim does not fail returns NotFound when the ServerClaim does
\* not exist or carries the recreate annotation.
C4_StatusNotFound ==
    \A m \in Machines :
        (/\ last.op = "GetStatus" /\ last.m = m /\ last.gate = "ok"
         /\ last.fault # "getSC"
         /\ (~serverClaims[m].exists \/ serverClaims[m].recreate))
            => last.code = NotFound

\* C4 witness: GetMachineStatus on a PowerOn ServerClaim with bound
\* IPAddressClaims that carries the recreate annotation.
C4_Witness ==
    \E m \in Machines :
        /\ last.op = "GetStatus" /\ last.m = m /\ Clean
        /\ serverClaims[m].exists /\ serverClaims[m].recreate
        /\ serverClaims[m].power = PowerOn
        /\ \E k \in IPAMKeys : ipClaims[<<m, k>>].exists /\ ipClaims[<<m, k>>].addressRef
        /\ last.code = NotFound

\* Some IPAM entry's IPAddressClaim is missing or fails the validation of
\* GetMachineStatus, every entry having an IPAMRef.
SomeClaimInvalid(m) ==
    /\ \A k \in IPAMKeys : ipamConfig[k] # "noref"
    /\ validateIPAddressClaims(ipClaims, m, ipamConfig, 1, "none") = "invalid"

\* C5 as stated: a GetMachineStatus on a ServerClaim without the recreate
\* annotation returns Uninitialized when some IPAM entry's IPAddressClaim
\* cannot be fetched or fails validation.
C5_InvalidClaimsUninitialized ==
    \A m \in Machines :
        (/\ last.op = "GetStatus" /\ last.m = m /\ Clean
         /\ serverClaims[m].exists /\ ~serverClaims[m].recreate
         /\ SomeClaimInvalid(m))
            => last.code = Uninitialized

\* C5 witness: GetMachineStatus returns NotFound for a PowerOn ServerClaim
\* whose bound IPAddressClaim lost its owner references.
C5_Witness ==
    \E m \in Machines, k \in IPAMKeys :
        /\ last.op = "GetStatus" /\ last.m = m /\ Clean
        /\ serverClaims[m].exists /\ ~serverClaims[m].recreate
        /\ serverClaims[m].power = PowerOn
        /\ ipClaims[<<m, k>>].exists /\ ipClaims[<<m, k>>].addressRef
        /\ ipClaims[<<m, k>>].owners = {}
        /\ last.code = NotFound

\* The name the policy selects for a ServerClaim bound to server s.
PolicySelectedName(m, s) ==
    IF nodeNamePolicy = NodeNamePolicyServerClaimName THEN <<"claim", m>>
    ELSE IF nodeNamePolicy = NodeNamePolicyServerName THEN <<"server", s>>
    ELSE ServerBMCRef(s)

\* C6: a GetMachineStatus whose operations all succeed, on a ServerClaim
\* without the recreate annotation and with valid IPAddressClaims, returns
\* Uninitialized while Power is not PowerOn, and once Power is PowerOn it
\* returns the provider ID and the policy-selected node name.
C6_StatusFollowsPower ==
    \A m \in Machines :
        (/\ last.op = "GetStatus" /\ last.m = m /\ Clean
         /\ serverClaims[m].exists /\ ~serverClaims[m].recreate
         /\ validateIPAddressClaims(ipClaims, m, ipamConfig, 1, "none") = "ok")
            => IF serverClaims[m].power # PowerOn
               THEN last.code = Uninitialized /\ last.nodeName = NoName
               ELSE /\ last.code = OK
                    /\ last.providerID = <<ProviderName, "://", MetalNamespace, "/", m>>
                    /\ last.nodeName # NoName
                    /\ last.nodeName = PolicySelectedName(m, serverClaims[m].serverRef)

\* C6 witness: GetMachineStatus succeeds on a ServerClaim an InitializeMachine
\* has powered on, under a policy that names the node after the Server.
C6_Witness ==
    \E m \in Machines :
        /\ last.op = "GetStatus" /\ last.m = m /\ last.code = OK
        /\ serverClaims[m].power = PowerOn /\ rendered[m] # NoSecret
        /\ nodeNamePolicy = NodeNamePolicyServerName
        /\ last.nodeName = <<"server", serverClaims[m].serverRef>>

\* C7 as stated: an InitializeMachine whose operations all succeed returns
\* Unavailable when the ServerClaim exists and has no ServerRef.
C7_UnboundClaimUnavailable ==
    \A m \in Machines :
        (/\ last.op = "Initialize" /\ last.m = m /\ Clean
         /\ serverClaims[m].exists /\ serverClaims[m].serverRef = NoServer)
            => last.code = Unavailable

\* C7 witness: InitializeMachine returns Uninitialized for a ServerClaim
\* that has no ServerRef.
C7_Witness ==
    \E m \in Machines :
        /\ last.op = "Initialize" /\ last.m = m /\ Clean
        /\ serverClaims[m].exists /\ serverClaims[m].serverRef = NoServer
        /\ last.code = Uninitialized

\* C8 as stated: an InitializeMachine whose operations all succeed returns
\* Unavailable when the ServerClaim is bound and the IPAddressClaim of some
\* IPAM entry has an empty AddressRef.
C8_UnboundAddressUnavailable ==
    \A m \in Machines :
        (/\ last.op = "Initialize" /\ last.m = m /\ Clean
         /\ serverClaims[m].exists /\ serverClaims[m].serverRef # NoServer
         /\ \E k \in IPAMKeys :
               /\ ipamConfig[k] = "ref"
               /\ ipClaims[<<m, k>>].exists /\ ~ipClaims[<<m, k>>].addressRef)
            => last.code = Unavailable

\* C8 witness: InitializeMachine returns Uninitialized for a bound ServerClaim
\* whose IPAddressClaim has an empty AddressRef.
C8_Witness ==
    \E m \in Machines, k \in IPAMKeys :
        /\ last.op = "Initialize" /\ last.m = m /\ Clean
        /\ serverClaims[m].exists /\ serverClaims[m].serverRef # NoServer
        /\ ipamConfig[k] = "ref"
        /\ ipClaims[<<m, k>>].exists /\ ~ipClaims[<<m, k>>].addressRef
        /\ last.code = Uninitialized

\* C9: under ServerName or BMCName, a CreateMachine whose operations all
\* succeed and that observes the ServerClaim without a ServerRef returns
\* Unavailable, without provider ID and node name, and leaves the ServerClaim
\* in the store with the recreate annotation.
C9_UnboundCreateUnavailable ==
    \A m \in Machines :
        (/\ last.op = "Create" /\ last.m = m /\ Clean
         /\ PolicyNeedsBinding /\ last.observed = "unbound")
            => /\ last.code = Unavailable
               /\ last.providerID = NoName /\ last.nodeName = NoName
               /\ serverClaims[m].exists /\ serverClaims[m].recreate

\* C9 witness: under ServerName a CreateMachine has just returned Unavailable
\* and left an unbound, annotated, powered-off ServerClaim.
C9_Witness ==
    \E m \in Machines :
        /\ nodeNamePolicy = NodeNamePolicyServerName
        /\ last.op = "Create" /\ last.m = m /\ last.code = Unavailable
        /\ serverClaims[m].exists /\ serverClaims[m].recreate
        /\ serverClaims[m].serverRef = NoServer
        /\ serverClaims[m].power = PowerOff

\* The step just taken is the first CreateMachine after a CreateMachine
\* returned Unavailable and the ServerClaim was then bound, with a request
\* that passes the checks and operations that all succeed.
RetriedCreate(m) ==
    /\ last.op = "Create" /\ last.m = m /\ Clean
    /\ PolicyNeedsBinding /\ last.prevRetry = "bound"

\* C10 as stated: the retried CreateMachine succeeds, returns the
\* policy-selected name of the bound Server and leaves no recreate annotation.
C10_RetriedCreateSucceeds ==
    \A m \in Machines :
        RetriedCreate(m)
            => /\ last.code = OK
               /\ last.nodeName = PolicySelectedName(m, serverClaims[m].serverRef)
               /\ ~serverClaims[m].recreate

\* C10 amended: the retried CreateMachine leaves the ServerClaim bound and
\* without the recreate annotation; it succeeds with the provider ID and the
\* policy-selected name of the bound Server when that name exists (always
\* under ServerName, under BMCName when the Server has a BMC reference), and
\* returns Internal when the Server has no BMC reference.
C10_RetriedCreateClearsAnnotation ==
    \A m \in Machines :
        RetriedCreate(m)
            => /\ serverClaims[m].exists /\ ~serverClaims[m].recreate
               /\ serverClaims[m].serverRef # NoServer
               /\ IF PolicySelectedName(m, serverClaims[m].serverRef) # NoName
                  THEN /\ last.code = OK
                       /\ last.providerID = <<ProviderName, "://", MetalNamespace, "/", m>>
                       /\ last.nodeName = PolicySelectedName(m, serverClaims[m].serverRef)
                  ELSE last.code = Internal /\ last.nodeName = NoName

\* C10 witness: under BMCName the retried CreateMachine has returned the name
\* of the BMC of the bound Server.
C10_Witness ==
    \E m \in Machines :
        /\ RetriedCreate(m) /\ nodeNamePolicy = NodeNamePolicyBMCName
        /\ last.code = OK
        /\ last.nodeName = ServerBMCRef(serverClaims[m].serverRef)
        /\ ~serverClaims[m].recreate

\* C11: a CreateMachine that directly follows a CreateMachine with the same
\* request, both with store operations that all succeed, returns the same
\* code, provider ID and node name and leaves the store as the first call
\* left it, with the machine's ServerClaim in it; and a ListMachines that
\* directly follows such a CreateMachine returns exactly one entry, the
\* machine's provider ID mapped to the machine's name.
C11_RepeatedCreateIdempotent ==
    [][\A m \in Machines :
          /\ (/\ last.op = "Create" /\ last.m = m /\ Clean
              /\ last'.op = "Create" /\ last'.m = m
              /\ last'.gate = "ok" /\ last'.fault = "none")
                => /\ serverClaims' = serverClaims
                   /\ ipClaims' = ipClaims
                   /\ secrets' = secrets
                   /\ serverClaims'[m].exists
                   /\ last'.code = last.code
                   /\ last'.providerID = last.providerID
                   /\ last'.nodeName = last.nodeName
          /\ (/\ last.op = "Create" /\ last.m = m /\ Clean
              /\ last'.op = "List" /\ last'.gate = "ok" /\ last'.fault = "none")
                => last'.list = {<<(<<ProviderName, "://", MetalNamespace, "/", m>>), m>>}]_vars

\* C11 witness: a successful CreateMachine has just repeated a CreateMachine
\* on a bound ServerClaim with an IPAddressClaim.
C11_Witness ==
    \E m \in Machines, k \in IPAMKeys :
        /\ last.op = "Create" /\ last.m = m /\ last.repeat
        /\ last.code = OK /\ last.providerID # NoName
        /\ PolicyNeedsBinding /\ serverClaims[m].serverRef # NoServer
        /\ ipClaims[<<m, k>>].exists

\* C12: after a CreateMachine whose request passes the checks and whose apply
\* of the ServerClaim succeeds, the store holds a ServerClaim under the
\* machine's name with Power = PowerOff, the labels of the provider spec, a
\* selector matching the provider spec's serverLabels and the provider
\* spec's image.
C12_CreatedServerClaimFields ==
    \A m \in Machines :
        (last.op = "Create" /\ last.m = m /\ last.gate = "ok" /\ last.fault # "applySC")
            => /\ serverClaims[m].exists
               /\ serverClaims[m].power = PowerOff
               /\ serverClaims[m].labels = SampleProviderSpec(ipamConfig).labels
               /\ serverClaims[m].selector = SampleProviderSpec(ipamConfig).serverLabels
               /\ serverClaims[m].image = SampleProviderSpec(ipamConfig).image

\* C12 witness: a CreateMachine has just applied the ServerClaim over one an
\* InitializeMachine had powered on.
C12_Witness ==
    \E m \in Machines :
        /\ last.op = "Create" /\ last.m = m /\ Clean /\ last.code = OK
        /\ rendered[m] # NoSecret /\ serverClaims[m].ignitionSecretRef = rendered[m]
        /\ serverClaims[m].power = PowerOff
        /\ serverClaims[m].selector = "bar"
        /\ <<"shoot-name", "my-shoot">> \in serverClaims[m].labels

C14_CreatedClaimsOwned ==
    \A m \in Machines :
        (last.op = "Create" /\ last.m = m /\ last.code = OK)
            => /\ serverClaims[m].exists
               /\ \A k \in IPAMKeys :
                     ipamConfig[k] # "absent"
                        => /\ ipClaims[<<m, k>>].exists
                           /\ [kind |-> ServerClaimKind, name |-> m,
                               apiVersion |-> MetalGroupVersion]
                                 \in ipClaims[<<m, k>>].owners

\* C14 witness: a successful CreateMachine has just applied an IPAddressClaim
\* the IPAM operator had bound before.
C14_Witness ==
    \E m \in Machines, k \in IPAMKeys :
        /\ last.op = "Create" /\ last.m = m /\ last.code = OK /\ Clean
        /\ ipamConfig[k] = "ref"
        /\ ipClaims[<<m, k>>].exists /\ ipClaims[<<m, k>>].addressRef
        /\ ipClaims[<<m, k>>].owners # {}

\* C15 as stated: after a DeleteMachine that returns success, the store holds
\* neither the machine's ServerClaim nor an ignition Secret of the machine,
\* under the machine's name or under the old naming.
C15_DeletedLeavesNothing ==
    \A m \in Machines :
        (last.op = "Delete" /\ last.m = m /\ last.code = OK)
            => /\ ~serverClaims[m].exists
               /\ [base |-> m, suffix |-> ""] \notin secrets
               /\ [base |-> m, suffix |-> "-ignition"] \notin secrets

\* C15 witness: a DeleteMachine whose probe for the Secret of the old naming
\* failed has returned success and removed the ServerClaim, and the Secret an
\* InitializeMachine wrote under the machine's name is still in the store.
C15_Witness ==
    \E m \in Machines :
        /\ last.op = "Delete" /\ last.m = m /\ last.code = OK
        /\ last.fault = "probeSecret"
        /\ ~serverClaims[m].exists
        /\ [base |-> m, suffix |-> ""] \in secrets
        /\ [base |-> m, suffix |-> ""] \in ignitionData

\* C16: a DeleteMachine that returns success leaves no ServerClaim of the
\* machine in the store and returns at a poll of its wait loop, a multiple of
\* 5 s and at most 10 min after the deletion request; and a DeleteMachine
\* whose store operations all succeed and that leaves the ServerClaim in the
\* store has waited the full 10 min and returns DeadlineExceeded, the
\* ServerClaim being marked for deletion.
C16_DeleteWaitsForRemoval ==
    \A m \in Machines :
        /\ (last.op = "Delete" /\ last.m = m /\ last.code = OK)
              => /\ ~serverClaims[m].exists
                 /\ last.elapsed % 5 = 0
                 /\ last.elapsed <= 600
        /\ (last.op = "Delete" /\ last.m = m /\ Clean /\ serverClaims[m].exists)
              => /\ last.code = DeadlineExceeded
                 /\ last.elapsed = 600
                 /\ serverClaims[m].deleting

\* C16 witness: a DeleteMachine has waited 10 min for a powered-on
\* ServerClaim the store did not remove, and returned DeadlineExceeded.
C16_Witness ==
    \E m \in Machines :
        /\ last.op = "Delete" /\ last.m = m /\ Clean
        /\ last.code = DeadlineExceeded /\ last.elapsed = PollTimeout
        /\ serverClaims[m].exists /\ serverClaims[m].deleting
        /\ serverClaims[m].power = PowerOn

\* C17: in every step, a DeleteMachine whose request passes the checks and
\* whose deletion of the ignition Secret does not fail, called when the
\* store holds no ServerClaim of the machine, returns NotFound and creates no
\* ServerClaim.
C17_DeleteAbsentNotFound ==
    [][\A m \in Machines :
          (/\ last'.op = "Delete" /\ last'.m = m /\ last'.gate = "ok"
           /\ last'.fault # "deleteSecret"
           /\ ~serverClaims[m].exists)
              => (last'.code = NotFound /\ ~serverClaims'[m].exists)]_vars

\* C17 witness: a DeleteMachine has returned NotFound for a machine whose
\* ServerClaim was removed after a CreateMachine, its IPAddressClaim being
\* still in the store.
C17_Witness ==
    \E m \in Machines, k \in IPAMKeys :
        /\ last.op = "Delete" /\ last.m = m /\ Clean
        /\ last.code = NotFound
        /\ ~serverClaims[m].exists
        /\ ipClaims[<<m, k>>].exists

\* C18: the list a ListMachines returns holds, for every ServerClaim of the
\* namespace that carries every label of the provider spec, one entry that
\* maps the ServerClaim's provider ID to its name, no two entries sharing a
\* provider ID, and holds no other entry; it is empty when no ServerClaim
\* carries the labels.
C18_ListMatchesLabels ==
    (last.op = "List" /\ Clean /\ last.code = OK)
        => LET Matching == {x \in DOMAIN serverClaims :
                               /\ serverClaims[x].exists
                               /\ \A l \in last.labels : l \in serverClaims[x].labels}
           IN  /\ \A x \in Matching :
                     <<(<<ProviderName, "://", MetalNamespace, "/", x>>), x>> \in last.list
               /\ \A e \in last.list :
                     /\ e[2] \in Matching
                     /\ e[1] = <<ProviderName, "://", MetalNamespace, "/", e[2]>>
               /\ \A e, f \in last.list : e[1] = f[1] => e = f
               /\ Cardinality(last.list) = Cardinality(Matching)
               /\ (Matching = {}) => (last.list = {})

\* C18 witness: a ListMachines has returned one entry, the namespace holding
\* two ServerClaims of which one carries the labels of the provider spec.
C18_Witness ==
    /\ last.op = "List" /\ Clean /\ last.code = OK
    /\ last.labels = SampleLabels
    /\ Cardinality({x \in DOMAIN serverClaims : serverClaims[x].exists}) = 2
    /\ Cardinality(last.list) = 1

\* The five callbacks of the driver.
Callbacks == {"Create", "Initialize", "GetStatus", "List", "Delete"}

\* C19: every step of one of the five callbacks whose request misses the
\* machine, the machine class or the credential secret (or is missing
\* itself), or whose machine class names another provider, returns
\* InvalidArgument, has attempted no store operation and leaves the store as
\* it was.
C19_MalformedRequestRejectedFirst ==
    [][(/\ last'.op \in Callbacks
        /\ last'.req.shape # "ok" \/ last'.req.provider # ProviderName)
          => /\ last'.code = InvalidArgument
             /\ last'.fault = "none"
             /\ UNCHANGED <<serverClaims, ipClaims, secrets, ignitionData>>]_vars

\* C19 witness: a DeleteMachine without credential secret has been rejected
\* while the ServerClaim of its machine exists.
C19_Witness ==
    /\ last.op = "Delete"
    /\ last.req.shape = "noSecret"
    /\ last.code = InvalidArgument
    /\ serverClaims[last.m].exists

\* The recorded request passed the first checks of its callback.
PassedGating(r) == r.shape = "ok" /\ r.provider = ProviderName

\* The provider spec of the recorded request does not decode, or the
\* validator rejects it: no userData, no image, or an invalid DNS server.
SpecRejected(r) ==
    \/ r.raw = "garbage"
    \/ r.userData = Nil
    \/ r.image = ""
    \/ \E i \in 1..Len(r.dnsServers) : r.dnsServers[i] = ""

\* A step of one of the callbacks in ops, on a request that passed the first
\* checks but whose provider spec is rejected, returns Internal, has
\* attempted no store operation and leaves the store as it was.
SpecRejectedFirstIn(ops) ==
    (/\ last'.op \in ops
     /\ PassedGating(last'.req)
     /\ SpecRejected(last'.req))
       => /\ last'.code = Internal
          /\ last'.fault = "none"
          /\ UNCHANGED <<serverClaims, ipClaims, secrets, ignitionData>>

\* C20 as stated: in each of the five callbacks, a request that passes the
\* first checks but whose provider spec does not decode or fails the
\* validator is rejected with Internal before any store resource is read or
\* changed.
C20_InvalidSpecRejectedByAll == [][SpecRejectedFirstIn(Callbacks)]_vars

\* C20 amended: in each of CreateMachine, InitializeMachine, GetMachineStatus
\* and ListMachines, a request that passes the first checks but whose
\* provider spec does not decode or fails the validator is rejected with
\* Internal before any store resource is read or changed.  DeleteMachine does
\* not decode the provider spec.
C20_InvalidSpecRejectedByDecoders == [][SpecRejectedFirstIn(Callbacks \ {"Delete"})]_vars

\* C20 witness: an InitializeMachine whose provider spec names an invalid DNS
\* server has been rejected while the ServerClaim of its machine exists.
C20_Witness ==
    /\ last.op = "Initialize"
    /\ PassedGating(last.req)
    /\ \E i \in 1..Len(last.req.dnsServers) : last.req.dnsServers[i] = ""
    /\ last.code = Internal
    /\ serverClaims[last.m].exists

C22_IgnitionNameFollowsStore ==
    [][\A m \in Machines :
          (/\ last'.op \in {"Initialize", "Delete"} /\ last'.m = m
           /\ last'.ignitionName # NoSecret)
              => /\ (last'.ignitionName = LegacyIgnitionName(m))
                        <=> (LegacyIgnitionName(m) \in secrets)
                 /\ (last'.ignitionName # LegacyIgnitionName(m))
                        => (last'.ignitionName = PlainIgnitionName(m))]_vars

\* C22 witness: an InitializeMachine whose probe for the Secret of the old
\* naming failed has written the Secret under the old naming, the store
\* holding the Secret an earlier InitializeMachine wrote under the machine's
\* name.
C22_Witness ==
    \E m \in Machines :
        /\ last.op = "Initialize" /\ last.m = m /\ last.code = OK
        /\ last.fault = "probeSecret"
        /\ last.ignitionName = LegacyIgnitionName(m)
        /\ serverClaims[m].ignitionSecretRef = LegacyIgnitionName(m)
        /\ PlainIgnitionName(m) \in secrets

\* C23: every CreateMachine, InitializeMachine and GetMachineStatus that
\* returns success reports the provider ID made of the provider's name, the
\* namespace of the metal cluster and the machine's name, and every entry of
\* a list ListMachines returns maps that provider ID to the machine's name,
\* whatever the binding, the power state and the node-name policy.
C23_ProviderIDStable ==
    /\ \A m \in Machines :
          (/\ last.op \in {"Create", "Initialize", "GetStatus"} /\ last.m = m
           /\ last.code = OK)
              => last.providerID = <<"ironcore-metal", "://", "ns", "/", m>>
    /\ (last.op = "List" /\ last.code = OK)
          => \A e \in last.list : e[1] = <<"ironcore-metal", "://", "ns", "/", e[2]>>

\* C23 witness: under the BMCName policy a GetMachineStatus has returned
\* the provider ID for a powered-on ServerClaim bound to a Server.
C23_Witness ==
    \E m \in Machines :
        /\ nodeNamePolicy = NodeNamePolicyBMCName
        /\ last.op = "GetStatus" /\ last.m = m /\ last.code = OK
        /\ last.providerID = <<"ironcore-metal", "://", "ns", "/", m>>
        /\ serverClaims[m].power = PowerOn /\ serverClaims[m].serverRef # NoServer

\* C27 as stated: a CreateMachine whose request passes the checks, called for
\* a machine whose ServerClaim an InitializeMachine has set to PowerOn with an
\* IgnitionSecretRef, leaves Power at PowerOn and the IgnitionSecretRef as it
\* was.
C27_CreateKeepsInitialized ==
    [][\A m \in Machines :
          (/\ last'.op = "Create" /\ last'.m = m /\ last'.gate = "ok"
           /\ serverClaims[m].exists /\ serverClaims[m].power = PowerOn
           /\ serverClaims[m].ignitionSecretRef # NoSecret
           /\ rendered[m] = serverClaims[m].ignitionSecretRef)
              => /\ serverClaims'[m].power = PowerOn
                 /\ serverClaims'[m].ignitionSecretRef = serverClaims[m].ignitionSecretRef]_vars

\* C27 witness: a CreateMachine has set back to PowerOff a ServerClaim that
\* still references the ignition Secret an InitializeMachine rendered when it
\* powered the ServerClaim on.
C27_Witness ==
    \E m \in Machines :
        /\ last.op = "Create" /\ last.m = m /\ last.gate = "ok"
        /\ last.fault # "applySC"
        /\ rendered[m] # NoSecret /\ rendered[m] \in secrets
        /\ serverClaims[m].ignitionSecretRef = rendered[m]
        /\ serverClaims[m].power = PowerOff

\* C28: in every InitializeMachine step, a ServerClaim that the step changes
\* is patched to PowerOn with an IgnitionSecretRef naming the ignition Secret
\* the step has applied to the store; and a step whose apply of the Secret
\* fails returns Internal and leaves the ServerClaim, its Power and its
\* IgnitionSecretRef as they were.
C28_SecretAppliedBeforePowerOn ==
    [][\A m \in Machines :
          (last'.op = "Initialize" /\ last'.m = m /\ last'.gate = "ok")
              => /\ (serverClaims'[m] # serverClaims[m])
                       => /\ serverClaims'[m].power = PowerOn
                          /\ serverClaims'[m].ignitionSecretRef = last'.ignitionName
                          /\ last'.ignitionName \in secrets'
                          /\ last'.ignitionName \in ignitionData'
                 /\ (last'.fault = "applySecret")
                       => /\ last'.code = Internal
                          /\ serverClaims'[m] = serverClaims[m]
                          /\ secrets' = secrets]_vars

\* C28 witness: an InitializeMachine whose apply of the ignition Secret failed
\* has left a bound ServerClaim at PowerOff, no Secret of the derived name
\* being in the store.
C28_Witness ==
    \E m \in Machines :
        /\ last.op = "Initialize" /\ last.m = m /\ last.fault = "applySecret"
        /\ last.code = Internal
        /\ last.ignitionName # NoSecret /\ last.ignitionName \notin secrets
        /\ serverClaims[m].serverRef # NoServer
        /\ serverClaims[m].power = PowerOff
        /\ serverClaims[m].ignitionSecretRef = NoSecret

C29_ConcurrentCreatesAsOne ==
    (\A c \in Callers : calls[c].pc = "done")
        => \A c \in Callers :
            LET alone == CreateOutcome(nodeNamePolicy, calls[c].began.sc, calls[c].began.ipc,
                                       ConcRequest, "none")
            IN  /\ serverClaims[ConcMachine] = alone.sc
                /\ ipClaims = alone.ipc

\* C29 witness: both calls have returned, each made store operations while
\* the other was between its first and its last, the calls created the
\* ServerClaim, found it unbound and annotated it.
C29_Witness ==
    /\ \A c \in Callers :
            /\ calls[c].pc = "done" /\ calls[c].overlapped
            /\ calls[c].code = Unavailable
            /\ ~calls[c].began.sc.exists
    /\ serverClaims[ConcMachine].exists
    /\ serverClaims[ConcMachine].recreate

\* ---- C24 ---------------------------------------------------------------------
\* C24: while a call is inside a scope of the client provider, the provider's
\* client is the client the scope was handed: the watcher replaces the client
\* only when no call is inside a scope.
C24_ClientNotReplacedInScope ==
    \A c \in Callers :
        calls[c].scope => /\ gateway.holder = c
                          /\ calls[c].client = gateway.client

\* C24 witness: the watcher has replaced the client, and a call that made a
\* store operation with the first client is inside a scope with the new one.
C24_Witness ==
    \E c \in Callers :
        /\ calls[c].scope /\ calls[c].pc \notin {"applySC", "done"}
        /\ calls[c].client = gateway.client
        /\ gateway.client > 0


\* ---- C26 ---------------------------------------------------------------------
\* GetMachineStatus has returned success to the controller.
LiveSuccess ==
    /\ last.op = "GetStatus" /\ last.m = LiveMachine /\ last.code = OK
    /\ fleet.next = "done"

\* C26 as stated: when the controller follows the codes, the operators bind
\* the ServerClaim and every IPAddressClaim and store operations eventually
\* succeed, GetMachineStatus eventually returns success.
C26_StatusEventuallyOK == <>LiveSuccess


\* Nothing the callbacks do can name the node: an entry of the IPAM
\* configuration has no IPAMRef, or the policy is BMCName and the operator
\* has bound the ServerClaim to a Server without BMC reference.
LiveBlocked ==
    \/ \E k \in IPAMKeys : ipamConfig[k] = "noref"
    \/ /\ nodeNamePolicy = NodeNamePolicyBMCName
       /\ ServerIsBound(serverClaims[LiveMachine])
       /\ ServerBMCRef(serverClaims[LiveMachine].serverRef) = NoName

\* C26 amended: under the same conditions GetMachineStatus eventually returns
\* success, unless an entry of the IPAM configuration has no IPAMRef or the
\* operator binds the ServerClaim, under the BMCName policy, to a Server
\* without BMC reference.
C26_StatusEventuallyOKUnlessBlocked == <>(LiveSuccess \/ LiveBlocked)

\* C26 witness: GetMachineStatus has returned success to the controller
\* after a store operation failed, the ServerClaim bound and powered on.
C26_Witness ==
    /\ LiveSuccess
    /\ ~LiveBlocked
    /\ fleet.faults = MaxFaults
    /\ ServerIsBound(serverClaims[LiveMachine])
    /\ serverClaims[LiveMachine].power = PowerOn
    /\ \E k \in IPAMKeys : ipClaims[<<LiveMachine, k>>].addressRef


\* ---- C31 ---------------------------------------------------------------------
\* CreateMachine reached the entry k of the IPAM configuration: the apply of
\* the ServerClaim succeeded and no entry before k lacks its IPAMRef.
ReachedEntry(k) ==
    /\ last'.op = "Create" /\ last'.gate = "ok"
    /\ last'.fault \notin {"applySC", "applyIPC"}
    /\ ipamConfig[k] = "ref"
    /\ \A j \in IPAMKeys : j < k => ipamConfig[j] # "noref"

LabelsMatch(c, m) == c.labelName = m /\ c.labelNamespace = MetalNamespace

\* C31 as stated: CreateMachine leaves the labels of an IPAddressClaim that
\* exists under the derived name as they are when they match the machine,
\* and returns Internal, the claim untouched, when they do not.
C31_AdoptsOrFails ==
    [][\A m \in Machines, k \in IPAMKeys :
        (ReachedEntry(k) /\ last'.m = m /\ ipClaims[<<m, k>>].exists)
            => IF LabelsMatch(ipClaims[<<m, k>>], m)
               THEN LabelsMatch(ipClaims'[<<m, k>>], m)
               ELSE /\ last'.code = Internal
                    /\ ipClaims'[<<m, k>>] = ipClaims[<<m, k>>]]_vars

\* C31 amended: CreateMachine applies the IPAddressClaim whether or not it
\* exists: labels that match the machine stay as they are, labels that do not
\* are overwritten with the machine's name and namespace, the owner
\* reference is added and the status is kept; the mismatch makes no
\* CreateMachine fail: the call returns what it returns when the labels match.
C31_AppliesOverExisting ==
    [][\A m \in Machines, k \in IPAMKeys :
        (ReachedEntry(k) /\ last'.m = m /\ ipClaims[<<m, k>>].exists)
            => /\ LabelsMatch(ipClaims'[<<m, k>>], m)
               /\ ipClaims'[<<m, k>>].addressRef = ipClaims[<<m, k>>].addressRef
               /\ ipClaims'[<<m, k>>].owners = ipClaims[<<m, k>>].owners \cup {OwnerRef(m)}
               /\ (/\ last'.fault = "none"
                   /\ \A j \in IPAMKeys : ipamConfig[j] # "noref"
                   /\ ~(/\ nodeNamePolicy = NodeNamePolicyBMCName
                        /\ ServerIsBound(serverClaims[m])
                        /\ ServerBMCRef(serverClaims[m].serverRef) = NoName))
                    => last'.code \in {OK, Unavailable}]_vars

\* C31 witness: a CreateMachine succeeded over an IPAddressClaim that carried
\* the labels of another machine; the claim now carries the machine's.
C31_Witness ==
    \E m \in Machines, k \in IPAMKeys :
        /\ last.op = "Create" /\ last.m = m /\ last.code = OK
        /\ k \in last.relabelled
        /\ LabelsMatch(ipClaims[<<m, k>>], m)
        /\ OwnerRef(m) \in ipClaims[<<m, k>>].owners
        /\ nodeNamePolicy = NodeNamePolicyServerClaimName
        /\ ~ServerIsBound(serverClaims[m])


\* ---- C32 ---------------------------------------------------------------------
\* C32: no operator removing a binding, every ServerClaim with Power=PowerOn
\* is bound to a Server.
C32_PoweredOnIsBound ==
    \A m \in Machines :
        (serverClaims[m].exists /\ serverClaims[m].power = PowerOn)
            => ServerIsBound(serverClaims[m])

\* C32 witness: under the ServerClaimName policy, which needs no binding to
\* name the node, InitializeMachine has just refused to power on a
\* ServerClaim that is not bound.
C32_Witness ==
    \E m \in Machines :
        /\ last.op = "Initialize" /\ last.m = m /\ last.gate = "ok" /\ last.fault = "none"
        /\ last.code = InitializeUnavailableCode
        /\ nodeNamePolicy = NodeNamePolicyServerClaimName
        /\ serverClaims[m].exists /\ ~ServerIsBound(serverClaims[m])
        /\ serverClaims[m].power = PowerOff
        /\ \A k \in IPAMKeys : ipamConfig[k] = "absent"


\* ---- C33 ---------------------------------------------------------------------
\* The IPAddressClaim the claim accepts for machine m: both server-claim
\* labels equal the machine's name and namespace, the AddressRef is set and
\* at least one owner reference is that of the machine's ServerClaim.
AcceptedAsStated(c, m) ==
    /\ c.exists
    /\ c.labelName = m /\ c.labelNamespace = MetalNamespace
    /\ c.addressRef
    /\ \E ownerRef \in c.owners :
          /\ ownerRef.kind = ServerClaimKind
          /\ ownerRef.name = m
          /\ ownerRef.apiVersion = MetalGroupVersion

\* GetMachineStatus has just validated the IPAddressClaims of machine m: its
\* store operations succeeded, the ServerClaim exists without the recreate
\* annotation and every entry of the IPAM configuration has its IPAMRef.
ValidatedClaims(m) ==
    /\ last.op = "GetStatus" /\ last.m = m /\ last.gate = "ok" /\ last.fault = "none"
    /\ serverClaims[m].exists /\ ~serverClaims[m].recreate
    /\ \A k \in IPAMKeys : ipamConfig[k] # "noref"

\* C33 as stated: the validation of GetMachineStatus accepts the
\* IPAddressClaims of a machine if and only if each has both server-claim
\* labels equal to the expected name and namespace, a non-empty AddressRef
\* and at least one owner reference with kind ServerClaim, the ServerClaim's
\* name and the expected API version.
C33_AcceptsAsStated ==
    \A m \in Machines :
        ValidatedClaims(m)
            => (last.code # StatusInvalidClaimsCode
                  <=> \A k \in IPAMKeys :
                        ipamConfig[k] = "ref" => AcceptedAsStated(ipClaims[<<m, k>>], m))

\* C33 witness: GetMachineStatus has returned NotFound for a bound
\* IPAddressClaim that carries the machine's labels and the owner reference
\* to the machine's ServerClaim, next to an owner reference to something else.
C33_Witness ==
    \E m \in Machines, k \in IPAMKeys :
        /\ ValidatedClaims(m)
        /\ last.code = StatusInvalidClaimsCode
        /\ ipamConfig[k] = "ref"
        /\ AcceptedAsStated(ipClaims[<<m, k>>], m)
        /\ ipClaims[<<m, k>>].owners # {OwnerRef(m)}


\* ---- C34 ---------------------------------------------------------------------
\* C34 as stated: a callback called for one machine leaves the ServerClaim of
\* every other machine of the namespace as it is, and neither writes nor
\* deletes the ignition Secret the other machine's ServerClaim references.
C34_OtherMachinesUntouched ==
    [][\A a \in DOMAIN serverClaims, b \in DOMAIN serverClaims :
        (/\ a # b
         /\ last'.op \in Callbacks /\ last'.m = a)
            => /\ serverClaims'[b] = serverClaims[b]
               /\ LET ref == serverClaims[b].ignitionSecretRef
                  IN  (serverClaims[b].exists /\ ref # NoSecret)
                        => /\ ref \in secrets => ref \in secrets'
                           /\ ref \in ignitionData => ref \in ignitionData'
                           /\ ~(/\ last'.op = "Initialize"
                                /\ last'.ignitionName = ref
                                /\ rendered'[a] = ref)]_vars

\* C34 witness: DeleteMachine for machine-0 has deleted the Secret
\* machine-0-ignition, which the ServerClaim of the machine named
\* machine-0-ignition, powered on, references as its ignition Secret.
C34_Witness ==
    LET a == "machine-0"
        b == "machine-0" \o "-ignition"
    IN  /\ PairNames \subseteq DOMAIN serverClaims
        /\ last.op = "Delete" /\ last.m = a /\ last.fault = "none"
        /\ last.ignitionName = PlainIgnitionName(b)
        /\ serverClaims[b].exists /\ serverClaims[b].power = PowerOn
        /\ serverClaims[b].ignitionSecretRef = PlainIgnitionName(b)
        /\ rendered[b] = PlainIgnitionName(b)
        /\ PlainIgnitionName(b) \notin secrets


\* ---- C35 ---------------------------------------------------------------------
\* C35 as stated: whenever GetMachineStatus returns success for a machine,
\* the Secret the IgnitionSecretRef of its ServerClaim names is in the store.
C35_StatusOKHasIgnitionSecret ==
    \A m \in Machines :
        (last.op = "GetStatus" /\ last.m = m /\ last.code = OK)
            => /\ serverClaims[m].ignitionSecretRef # NoSecret
               /\ serverClaims[m].ignitionSecretRef \in secrets

\* C35 witness: GetMachineStatus has returned success for a ServerClaim that
\* is powered on, is not being deleted, and references an ignition Secret
\* that a DeleteMachine removed before its delete of the ServerClaim failed.
C35_Witness ==
    \E m \in Machines :
        /\ last.op = "GetStatus" /\ last.m = m /\ last.code = OK /\ last.fault = "none"
        /\ serverClaims[m].exists /\ ~serverClaims[m].deleting
        /\ serverClaims[m].power = PowerOn
        /\ serverClaims[m].ignitionSecretRef = rendered[m]
        /\ rendered[m] = PlainIgnitionName(m)
        /\ secrets = {}


\* ---- C36 ---------------------------------------------------------------------
\* C36: the node name of every successful CreateMachine, InitializeMachine
\* and GetMachineStatus is the ServerClaim's name under ServerClaimName, the
\* bound Server's name under ServerName and the BMC name of the bound Server
\* under BMCName; under ServerName and BMCName no call succeeds on an unbound
\* ServerClaim, and under BMCName none succeeds when the Server has no BMC
\* reference.
C36_NodeNameFollowsPolicy ==
    \A m \in Machines :
        (/\ last.op \in {"Create", "Initialize", "GetStatus"}
         /\ last.m = m /\ last.code = OK)
            => /\ serverClaims[m].exists
               /\ last.nodeName # NoName
               /\ CASE nodeNamePolicy = NodeNamePolicyServerClaimName ->
                        last.nodeName = <<"claim", m>>
                    [] nodeNamePolicy = NodeNamePolicyServerName ->
                        /\ serverClaims[m].serverRef # NoServer
                        /\ last.nodeName = <<"server", serverClaims[m].serverRef>>
                    [] nodeNamePolicy = NodeNamePolicyBMCName ->
                        /\ serverClaims[m].serverRef # NoServer
                        /\ ServerBMCRef(serverClaims[m].serverRef) # NoName
                        /\ last.nodeName = ServerBMCRef(serverClaims[m].serverRef)
                    [] OTHER -> FALSE

\* C36 witness: under BMCName an InitializeMachine succeeds and returns the
\* BMC name of the Server the ServerClaim is bound to.
C36_Witness ==
    \E m \in Machines :
        /\ last.op = "Initialize" /\ last.m = m /\ last.code = OK
        /\ nodeNamePolicy = NodeNamePolicyBMCName
        /\ serverClaims[m].serverRef # NoServer
        /\ last.nodeName = <<"bmc", serverClaims[m].serverRef>>


\* ---- C37 ---------------------------------------------------------------------
\* C37: under ServerClaimName no CreateMachine returns Unavailable, and a
\* CreateMachine whose request passes the checks, whose IPAM entries all
\* carry an IPAMRef and whose operations all succeed returns success with
\* the ServerClaim's own name as node name, bound or not.
C37_ClaimNameNeedsNoBinding ==
    \A m \in Machines :
        (/\ last.op = "Create" /\ last.m = m
         /\ nodeNamePolicy = NodeNamePolicyServerClaimName)
            => /\ last.code # Unavailable
               /\ (Clean /\ \A k \in IPAMKeys : ipamConfig[k] # "noref")
                    => /\ last.code = OK
                       /\ last.nodeName = <<"claim", m>>
                       /\ last.providerID = getProviderIDForServerClaim(m)
                       /\ serverClaims[m].exists /\ ~serverClaims[m].recreate

\* C37 witness: under ServerClaimName a CreateMachine has returned success
\* and the ServerClaim's name while the ServerClaim has no ServerRef.
C37_Witness ==
    \E m \in Machines :
        /\ last.op = "Create" /\ last.m = m /\ Clean
        /\ nodeNamePolicy = NodeNamePolicyServerClaimName
        /\ last.code = OK /\ last.nodeName = <<"claim", m>>
        /\ serverClaims[m].exists /\ serverClaims[m].serverRef = NoServer
        /\ serverClaims[m].power = PowerOff


\* ---- C38 ---------------------------------------------------------------------
\* C38: a GetMachineStatus or ListMachines step, whatever code it returns,
\* leaves every ServerClaim, IPAddressClaim and Secret of the store as it was.
C38_ReadOnlyCallbacks ==
    [][last'.op \in {"GetStatus", "List"}
            => UNCHANGED <<serverClaims, ipClaims, secrets, ignitionData>>]_vars

\* C38 witness: GetMachineStatus has returned NotFound for a ServerClaim that
\* carries the recreate annotation, and the ServerClaim, an IPAddressClaim
\* and the ignition Secret are in the store.
C38_Witness ==
    \E m \in Machines :
        /\ last.op = "GetStatus" /\ last.m = m /\ last.code = NotFound
        /\ serverClaims[m].exists /\ serverClaims[m].recreate
        /\ \E k \in IPAMKeys : ipClaims[<<m, k>>].exists
        /\ rendered[m] # NoSecret /\ rendered[m] \in secrets


\* ---- C39 ---------------------------------------------------------------------
\* C39 as stated: of the requests that are well-formed otherwise, the
\* callbacks that validate the credential secret reject those whose userData
\* is absent, nil or of length zero, and accept those whose userData is
\* present and not empty.
C39_EmptyUserDataRejected ==
    (/\ last.op \in Callbacks \ {"Delete"}
     /\ PassedGating(last.req)
     /\ last.req.raw = "json" /\ last.req.image # ""
     /\ \A i \in 1..Len(last.req.dnsServers) : last.req.dnsServers[i] # "")
        => (last.gate = "spec" <=> last.req.userData \in {Nil, ""})

\* C39 witness: a CreateMachine whose credential secret carries a userData of
\* length zero has passed the validator and applied the ServerClaim.
C39_Witness ==
    /\ last.op = "Create"
    /\ PassedGating(last.req)
    /\ last.req.userData = ""
    /\ last.gate = "ok" /\ last.code = OK
    /\ serverClaims[last.m].exists


\* ---- C40 ---------------------------------------------------------------------
\* C40: once the caller has cancelled the context of a DeleteMachine call that
\* is in its wait loop, the next step of the call is its return with
\* DeadlineExceeded, without another look at the store and without spending
\* more of the wait budget; and every DeleteMachine call that has begun comes
\* to its return.
C40_CancelledDeleteReturns ==
    /\ [][(/\ calls # <<>> /\ calls[1].pc # "done" /\ calls[1].cancelled
           /\ calls' # calls)
            => /\ calls'[1].pc = "done"
               /\ calls'[1].code = DeadlineExceeded
               /\ calls'[1].now = calls[1].now
               /\ UNCHANGED <<serverClaims, ipClaims, secrets, ignitionData>>]_vars
    /\ (calls # <<>>) ~> (calls # <<>> /\ calls[1].pc = "done")

\* C40 witness: a DeleteMachine call whose context was cancelled in the wait
\* loop has come to its return with DeadlineExceeded before the wait budget
\* was spent, the ServerClaim still being deleted.
C40_Witness ==
    /\ calls # <<>>
    /\ calls[1].pc = "done" /\ calls[1].cancelled
    /\ calls[1].code = DeadlineExceeded
    /\ calls[1].now > 0 /\ calls[1].now < PollTimeout
    /\ serverClaims[WaitMachine].exists /\ serverClaims[WaitMachine].deleting

====
